---- MODULE Spec2Model ----
(***************************************************************************)
(* A model of the smoke-rs execution core: the bounded ThreadPool, the     *)
(* Scheduler and its JoinHandle, Task (wait / then / all) and Stream       *)
(* (read / merge).  Every component has a specification of its own over    *)
(* the shared state; a component that a specification does not exercise    *)
(* stays in its initial state.                                             *)
(***************************************************************************)
EXTENDS Integers, Sequences, FiniteSets, Bags, TLC

(***************************************************************************)
(* Bounds of the model.                                                    *)
(***************************************************************************)
MaxJobs == 2
MaxSubmitters == 2
MaxBound == 2
SchedJobs == 2
MaxChain == 2
MaxAll == 2
MaxItems == 3
MaxBuf == 2
MergeSources == 2
MergeItems == 4

NoJob == 0

\* Option<T>
None == <<>>

Some(v) == <<v>>
Values == {"a", "b"}

(***************************************************************************)
(* ThreadPool (threadpool.rs) and the thread-pool backend of Scheduler     *)
(* (scheduler.rs).                                                         *)
(*   queue, bound, active : ThreadPoolData                                 *)
(*   nJobs    : the number of closures the run submits (fixed by Init)     *)
(*   nextJob  : the next closure to be submitted; a job's number is its    *)
(*              place in the order of the push_back calls                  *)
(*   pc, held : per thread, its position and the closure its process()     *)
(*              call has popped.  Thread j > 0 is the worker thread that   *)
(*              runs job j; thread -i is the i-th submitter.               *)
(*   mine     : per submitter, the job its current run() call submits      *)
(*   ret      : per job, the value f returned (the closure's local result) *)
(*   finished : the jobs whose f has returned, in the order of the returns *)
(*   slot     : per job, the Mutex<Option<T>> of its JoinHandle            *)
(*   panicked : per job, whether f panicked                                *)
(*   joinPc, joinRes, notified : per job, the thread that joins its        *)
(*              JoinHandle: its position, what join() returned, and        *)
(*              whether a notify_one reached it while it waited            *)
(***************************************************************************)
VARIABLES queue, bound, active, nJobs, nextJob, pc, held, mine, ret, slot,
          panicked, finished, joinPc, joinRes, notified

(***************************************************************************)
(* Task (task.rs), driven inline by Task::wait on one thread.              *)
(*   ttask  : the task the thread waits on                                 *)
(*   tstack : the thread's stack of Task::wait calls; a frame holds the    *)
(*            task, the position in wait and in the task's closure, the    *)
(*            sync_channel(1) of the call (its buffer, and whether its     *)
(*            sender is alive), the value the closure sent, and the task   *)
(*            a continuation returned                                      *)
(*   treg   : the value the last finished wait call returned               *)
(*   tout   : what the outermost wait call did: returned Ok(v) or          *)
(*            Err(RecvError), or panicked                                  *)
(*   tlog   : the events of the run, in order: <<event, level, result,     *)
(*            value sent>>, the level being the number of then-steps of    *)
(*            the task the event belongs to                                *)
(***************************************************************************)
VARIABLES ttask, tstack, treg, tout, tlog

(***************************************************************************)
(* Task::all (task.rs), driven by a thread that waits on the all-task.     *)
(*   atasks : the tasks given to all, each a Task::new closure             *)
(*   apc    : the driving thread's position in the all-closure and in the  *)
(*            wait call around it                                          *)
(*   aidx   : the handle the second pass of the closure is at              *)
(*   acc    : the vector collect has built so far                          *)
(*   ares   : whether collect goes on ("Ok") or has met an Err             *)
(*   abuf   : the buffer of the all-task's own sync_channel(1)             *)
(*   aout   : what the wait call on the all-task did                       *)
(***************************************************************************)
VARIABLES atasks, apc, aidx, acc, ares, abuf, aout

(***************************************************************************)
(* Stream (stream.rs).  Channel c >= 1 is the channel that reading source  *)
(* stream c creates; channel 0 is the one that reading a merged stream     *)
(* creates.  An item in a channel or at the consumer is <<value, source>>. *)
(*   sitems   : per source, the values its closure sends, in order         *)
(*   sop      : what the thread that reads a source does with an item: it   *)
(*              forwards it (merge), or is the stage of filter or of map   *)
(*   scap     : per channel, the bound given to sync_channel               *)
(*   sbuf     : per channel, the items sent and not yet received; on a     *)
(*              rendezvous channel, the item of the sender blocked in send *)
(*   ppc      : per source, the position of the thread running its closure *)
(*   ppos     : per source, the index of the send the closure is at        *)
(*   rpc      : per source, the position of merge's thread for it          *)
(*   rheld    : per source, the item that thread has received              *)
(*   rlast    : per source, what that thread's last send returned          *)
(*   mpc,midx : the position of the thread running the merge closure       *)
(*   cchan    : the channel the consumer reads                             *)
(*   cpc      : the consumer's position                                    *)
(*   received : the items the consumer has received, in order              *)
(***************************************************************************)
VARIABLES sitems, sop, scap, sbuf, ppc, ppos, rpc, rheld, rlast, mpc, midx, cchan,
          cpc, received

(***************************************************************************)
(* Building and driving a Task or a Stream (task.rs, stream.rs).           *)
(*   build : the value under construction: the constructor and the         *)
(*           combinators applied to it so far (innermost first), and,      *)
(*           once a terminal operation has consumed it, how far the        *)
(*           drive has come                                                *)
(*   work  : what has happened so far: how often the closure (func) of     *)
(*           each Task/Stream of the chain was called, the threads         *)
(*           spawned, the channels created, the user closures called       *)
(***************************************************************************)
VARIABLES build, work

(***************************************************************************)
(* Scheduler (scheduler.rs).                                               *)
(*   backend : the backend of the scheduler, "pool" or "thread"            *)
(*   hlock   : per job, the mutex around the std JoinHandle of the thread  *)
(*             backend: free, held by a thread inside join, or poisoned    *)
(*   hopt    : per job, whether that mutex still holds Some(handle)        *)
(* A joining thread h calls join on the handle of job h, or, for h beyond  *)
(* the number of jobs, on a clone of the handle of job 1.                  *)
(***************************************************************************)
VARIABLES backend, hlock, hopt

(***************************************************************************)
(* Stream::fold (stream.rs), driven by a thread that waits on the task.    *)
(*   fop  : the function and the initial value given to fold               *)
(*   facc : the accumulator of the fold                                    *)
(*   fout : what the wait call on the task returned                        *)
(***************************************************************************)
VARIABLES fop, facc, fout

(***************************************************************************)
(* Queue (smoke/async/queue.rs).  Thread t < 0 is a thread that calls run, *)
(* pause and resume; thread i >= 1 is the thread operation i spawns, which *)
(* calls the operation's next callback.                                    *)
(*   qqueue       : the operations queued, in order                        *)
(*   qconcurrency : the concurrency given to Queue::new                    *)
(*   qactive      : the active count                                       *)
(*   qpaused      : the paused flag                                        *)
(*   qpc          : per thread, its position in run, resume and process    *)
(*   qheld        : per thread, the operation its process() call popped    *)
(*   qnext        : the operation the next run call submits                *)
(*   qkind        : per operation, whether it calls next before it returns *)
(*                  ("sync") or from a thread it spawns ("thread")         *)
(***************************************************************************)
VARIABLES qqueue, qconcurrency, qactive, qpaused, qpc, qheld, qnext, qkind

(***************************************************************************)
(* Interval (smoke/timers/interval.rs).                                    *)
(*   ipc      : the position of the interval thread in its loop            *)
(*   istarted : the started flag                                           *)
(*   ilock    : the holder of the mutex around started: "free", "thread"   *)
(*              or the thread c >= 1 inside clear                          *)
(*   iclear   : per thread that calls clear from outside the callback,     *)
(*              its position                                               *)
(*   icalls   : how often the callback was invoked                         *)
(*   ilate    : how often it was invoked after a clear call had returned   *)
(***************************************************************************)
VARIABLES ipc, istarted, ilock, iclear, icalls, ilate

poolVars == <<queue, bound, active, nJobs, nextJob, pc, held, mine, ret, slot,
              panicked, finished>>
joinVars == <<joinPc, joinRes, notified>>

taskVars == <<ttask, tstack, treg, tout, tlog>>

allVars == <<atasks, apc, aidx, acc, ares, abuf, aout>>

streamVars == <<sitems, sop, scap, sbuf, ppc, ppos, rpc, rheld, rlast, mpc, midx,
                cchan, cpc, received>>

foldVars == <<fop, facc, fout>>

schedVars == <<backend, hlock, hopt>>

buildVars == <<build, work>>

queueVars == <<qqueue, qconcurrency, qactive, qpaused, qpc, qheld, qnext, qkind>>

timerVars == <<ipc, istarted, ilock, iclear, icalls, ilate>>

vars == <<poolVars, joinVars, schedVars, taskVars, allVars, streamVars,
          foldVars, buildVars, queueVars, timerVars>>

\* What the steps of one component leave alone.
notPool == <<schedVars, taskVars, allVars, streamVars, foldVars, buildVars, queueVars, timerVars>>
notTask == <<poolVars, joinVars, schedVars, allVars, streamVars, foldVars, buildVars, queueVars, timerVars>>
notAll == <<joinVars, schedVars, taskVars, streamVars, foldVars, buildVars, queueVars, timerVars>>
notStream == <<poolVars, joinVars, schedVars, taskVars, allVars, foldVars, buildVars, queueVars, timerVars>>
notFold == <<poolVars, joinVars, schedVars, taskVars, allVars, buildVars, queueVars, timerVars>>
notSched == <<taskVars, allVars, streamVars, foldVars, buildVars, queueVars, timerVars>>

Jobs == 1..nJobs
Threads == DOMAIN pc

\* The threads that call join, and the job whose handle (or a clone of it)
\* each of them holds.
Joiners == DOMAIN joinPc

HandleJob(h) == IF h <= nJobs THEN h ELSE 1

\* Where a thread goes when its process() call returns: a submitter is back in
\* its caller, a worker thread ends.
AfterProcess(t) == IF t < 0 THEN "runret" ELSE "done"

\* A scheduler of backend be (for the pool, ThreadPool::new(b)) that is given
\* n closures by s threads, and k clones of the first handle.
SchedNew(be, b, n, s, k) ==
    /\ backend = be
    /\ hlock = [j \in 1..n |-> "free"]
    /\ hopt = [j \in 1..n |-> FALSE]
    /\ queue = <<>>
    /\ bound = b
    /\ active = 0
    /\ nJobs = n
    /\ nextJob = 1
    /\ pc = [t \in (1..n) \cup {0 - i : i \in 1..s} |->
                 IF t < 0 THEN "idle" ELSE "none"]
    /\ held = [t \in (1..n) \cup {0 - i : i \in 1..s} |-> NoJob]
    /\ mine = [t \in {0 - i : i \in 1..s} |-> NoJob]
    /\ ret = [j \in 1..n |-> None]
    /\ slot = [j \in 1..n |-> None]
    /\ panicked = [j \in 1..n |-> FALSE]
    /\ finished = <<>>
    /\ joinPc = [h \in 1..(n + k) |-> "nohandle"]
    /\ joinRes = [h \in 1..(n + k) |-> <<"None">>]
    /\ notified = [h \in 1..(n + k) |-> FALSE]

\* ThreadPool::new(bound), reached through Scheduler::threadpool(bound)
PoolNew(b, n, s) == SchedNew("pool", b, n, s, 0)

\* A thread that is about to call wait on a task.
TaskStart(task) ==
    /\ ttask = task
    /\ tstack = <<>>
    /\ treg = <<"None">>
    /\ tout = <<"None">>
    /\ tlog = <<>>

\* A thread that is about to call wait on Task::all(ts).
AllStart(ts) ==
    /\ atasks = ts
    /\ apc = "collect"
    /\ aidx = 1
    /\ acc = <<>>
    /\ ares = "Ok"
    /\ abuf = <<>>
    /\ aout = <<"None">>

\* The state of a component that a specification leaves unused.
PoolUnused == PoolNew(0, 0, 0)

AllUnused == AllStart(<<>>)

\* The streams items (one sequence of values per source) with the channels of
\* bounds caps, read by a consumer on channel c; m is where the thread of a
\* merge closure starts.
\* What a thread of merge does with the items it reads: it forwards each.
Forward == [kind |-> "forward", keep |-> Values, fn |-> [v \in Values |-> v]]

StreamStart(items, caps, c, m) ==
    /\ sitems = items
    /\ scap = caps
    /\ sbuf = [ch \in DOMAIN caps |-> <<>>]
    /\ ppc = [i \in DOMAIN items |-> IF c = 0 THEN "none" ELSE "put"]
    /\ ppos = [i \in DOMAIN items |-> 1]
    /\ rpc = [i \in DOMAIN items |-> "none"]
    /\ rheld = [i \in DOMAIN items |-> <<>>]
    /\ rlast = [i \in DOMAIN items |-> "None"]
    /\ mpc = m
    /\ midx = 1
    /\ cchan = c
    /\ cpc = "recv"
    /\ received = <<>>

\* A thread that is about to call wait on s.fold(init, f).
FoldStart(f, init) ==
    /\ fop = [fn |-> f, init |-> init]
    /\ facc = init
    /\ fout = <<"None">>

StreamUnused == StreamStart(<<>>, <<>>, 1, "none") /\ sop = Forward

\* Nothing has been constructed.
BuildNew ==
    /\ build = [ops |-> <<>>, phase |-> "build", level |-> 0, by |-> "none"]
    /\ work = [invoked |-> <<>>, threads |-> 0, chans |-> 0, ucalls |-> 0]

BuildUnused == BuildNew

\* Queue::new(c), with n operations to submit, of the kinds ks, by s threads.
QueueNew(c, n, ks, s) ==
    /\ qqueue = <<>>
    /\ qconcurrency = c
    /\ qactive = 0
    /\ qpaused = FALSE
    /\ qpc = [t \in (1..n) \cup {0 - i : i \in 1..s} |->
                 IF t < 0 THEN "idle" ELSE "none"]
    /\ qheld = [t \in (1..n) \cup {0 - i : i \in 1..s} |-> NoJob]
    /\ qnext = 1
    /\ qkind = ks

QueueUnused == QueueNew(0, 0, <<>>, 0)

\* Interval::new(callback, interval): started is true and the thread is
\* spawned; k threads hold a clone and may call clear.
IntervalNew(k) ==
    /\ ipc = "lock"
    /\ istarted = TRUE
    /\ ilock = "free"
    /\ iclear = [c \in 1..k |-> "idle"]
    /\ icalls = 0
    /\ ilate = 0

\* No Interval: no thread and no clone.
IntervalUnused ==
    /\ ipc = "none"
    /\ istarted = FALSE
    /\ ilock = "free"
    /\ iclear = <<>>
    /\ icalls = 0
    /\ ilate = 0

FoldUnused == FoldStart([x \in Values \X Values |-> x[1]], "a")

TaskUnused == TaskStart([base |-> [kind |-> "send", val |-> "a"], fs |-> <<>>])

\* The mutant of Spawn below: the closure is pushed at the front of the queue.
SpawnPushFront(t) ==
    /\ t < 0
    /\ pc[t] = "idle"
    /\ nextJob <= nJobs
    /\ queue' = <<nextJob>> \o queue
    /\ mine' = [mine EXCEPT ![t] = nextJob]
    /\ nextJob' = nextJob + 1
    /\ pc' = [pc EXCEPT ![t] = "check"]
    /\ UNCHANGED <<notPool, finished, bound, active, nJobs, held, ret, slot, panicked, joinVars>>

\* ThreadPoolScheduler::run up to the push_back of ThreadPool::spawn: the handle
\* (an empty slot) is created and the closure built around f is queued under the
\* lock.
Spawn(t) ==
    /\ t < 0
    /\ pc[t] = "idle"
    /\ nextJob <= nJobs
    /\ queue' = Append(queue, nextJob)
    /\ mine' = [mine EXCEPT ![t] = nextJob]
    /\ nextJob' = nextJob + 1
    /\ pc' = [pc EXCEPT ![t] = "check"]
    /\ UNCHANGED <<notPool, finished, bound, active, nJobs, held, ret, slot, panicked, joinVars>>

\* The mutant of ProcessCheck below: the test ignores the active count.
ProcessCheckIgnoresBound(t) ==
    /\ pc[t] = "check"
    /\ IF Len(queue) > 0
         THEN /\ held' = [held EXCEPT ![t] = Head(queue)]
              /\ queue' = Tail(queue)
              /\ pc' = [pc EXCEPT ![t] = "inc"]
         ELSE /\ pc' = [pc EXCEPT ![t] = AfterProcess(t)]
              /\ UNCHANGED <<queue, held>>
    /\ UNCHANGED <<notPool, finished, bound, active, nJobs, nextJob, mine, ret, slot, panicked,
                   joinVars>>

\* The mutant of ProcessCheck below: the test is active <= bound.
ProcessCheckUpToBound(t) ==
    /\ pc[t] = "check"
    /\ IF Len(queue) > 0 /\ active <= bound
         THEN /\ held' = [held EXCEPT ![t] = Head(queue)]
              /\ queue' = Tail(queue)
              /\ pc' = [pc EXCEPT ![t] = "inc"]
         ELSE /\ pc' = [pc EXCEPT ![t] = AfterProcess(t)]
              /\ UNCHANGED <<queue, held>>
    /\ UNCHANGED <<notPool, finished, bound, active, nJobs, nextJob, mine, ret, slot, panicked,
                   joinVars>>

\* ThreadPool::process, first block: the test and the pop_front under the lock.
ProcessCheck(t) ==
    /\ pc[t] = "check"
    /\ IF Len(queue) > 0 /\ active < bound
         THEN /\ held' = [held EXCEPT ![t] = Head(queue)]
              /\ queue' = Tail(queue)
              /\ pc' = [pc EXCEPT ![t] = "inc"]
         ELSE /\ pc' = [pc EXCEPT ![t] = AfterProcess(t)]
              /\ UNCHANGED <<queue, held>>
    /\ UNCHANGED <<notPool, finished, bound, active, nJobs, nextJob, mine, ret, slot, panicked,
                   joinVars>>

\* ThreadPool::increment, which process() calls after its lock was released.
Increment(t) ==
    /\ pc[t] = "inc"
    /\ active' = active + 1
    /\ pc' = [pc EXCEPT ![t] = "spawnthread"]
    /\ UNCHANGED <<notPool, finished, queue, bound, nJobs, nextJob, held, mine, ret, slot,
                   panicked, joinVars>>

\* ThreadPool::process, the thread::spawn of the worker for the popped closure.
SpawnThread(t) ==
    /\ pc[t] = "spawnthread"
    /\ pc' = [pc EXCEPT ![t] = AfterProcess(t), ![held[t]] = "run"]
    /\ held' = [held EXCEPT ![t] = NoJob]
    /\ UNCHANGED <<notPool, finished, queue, bound, active, nJobs, nextJob, mine, ret, slot,
                   panicked, joinVars>>

\* ThreadPoolScheduler::run returns the JoinHandle once spawn has returned.
RunReturn(t) ==
    /\ t < 0
    /\ pc[t] = "runret"
    /\ pc' = [pc EXCEPT ![t] = "idle"]
    /\ joinPc' = [h \in Joiners |->
                    IF HandleJob(h) = mine[t] THEN "ready" ELSE joinPc[h]]
    /\ mine' = [mine EXCEPT ![t] = NoJob]
    /\ UNCHANGED <<notPool, finished, queue, bound, active, nJobs, nextJob, held, ret, slot,
                   panicked, joinRes, notified>>

\* The worker's func.call(), first statement of the scheduler's closure: f
\* returns a value ...
JobCallReturn(j, v) ==
    /\ j > 0
    /\ pc[j] = "run"
    /\ pc' = [pc EXCEPT ![j] = "store"]
    /\ ret' = [ret EXCEPT ![j] = Some(v)]
    /\ finished' = Append(finished, j)
    /\ UNCHANGED <<notPool, queue, bound, active, nJobs, nextJob, held, mine, slot,
                   panicked, joinVars>>

\* ... or f panics: the worker thread unwinds, and neither the slot nor
\* decrement() nor process() is reached.
JobCallPanic(j) ==
    /\ j > 0
    /\ pc[j] = "run"
    /\ pc' = [pc EXCEPT ![j] = "dead"]
    /\ panicked' = [panicked EXCEPT ![j] = TRUE]
    /\ UNCHANGED <<notPool, finished, queue, bound, active, nJobs, nextJob, held, mine, ret, slot,
                   joinVars>>

\* The mutant of JobStore below: the result is stored without notify_one.
JobStoreSilent(j) ==
    /\ j > 0
    /\ pc[j] = "store"
    /\ slot' = [slot EXCEPT ![j] = ret[j]]
    /\ pc' = [pc EXCEPT ![j] = "dec"]
    /\ UNCHANGED <<notPool, finished, queue, bound, active, nJobs, nextJob, held, mine, ret,
                   panicked, joinPc, joinRes, notified>>

\* The mutant of JobStore below: the slot gets the result of the closure that
\* finished last, whichever handle it belongs to.
JobStoreLatest(j) ==
    /\ j > 0
    /\ pc[j] = "store"
    /\ slot' = [slot EXCEPT ![j] = ret[finished[Len(finished)]]]
    /\ IF \E h \in Joiners : HandleJob(h) = j /\ joinPc[h] = "wait"
         THEN \E h \in Joiners :
                  /\ HandleJob(h) = j
                  /\ joinPc[h] = "wait"
                  /\ notified' = [notified EXCEPT ![h] = TRUE]
         ELSE UNCHANGED notified
    /\ pc' = [pc EXCEPT ![j] = "dec"]
    /\ UNCHANGED <<notPool, finished, queue, bound, active, nJobs, nextJob, held, mine, ret,
                   panicked, joinPc, joinRes>>

\* The rest of the scheduler's closure: the result is stored under the slot's
\* lock and notify_one wakes a thread waiting on the condition variable.
JobStore(j) ==
    /\ j > 0
    /\ pc[j] = "store"
    /\ slot' = [slot EXCEPT ![j] = ret[j]]
    /\ IF \E h \in Joiners : HandleJob(h) = j /\ joinPc[h] = "wait"
         THEN \E h \in Joiners :
                  /\ HandleJob(h) = j
                  /\ joinPc[h] = "wait"
                  /\ notified' = [notified EXCEPT ![h] = TRUE]
         ELSE UNCHANGED notified
    /\ pc' = [pc EXCEPT ![j] = "dec"]
    /\ UNCHANGED <<notPool, finished, queue, bound, active, nJobs, nextJob, held, mine, ret,
                   panicked, joinPc, joinRes>>

\* Decrement as it would be if the worker ended without calling process().
DecrementNoProcess(j) ==
    /\ j > 0
    /\ pc[j] = "dec"
    /\ active' = active - 1
    /\ pc' = [pc EXCEPT ![j] = "done"]
    /\ UNCHANGED <<notPool, finished, queue, bound, nJobs, nextJob, held, mine, ret, slot,
                   panicked, joinVars>>

\* ThreadPool::decrement, which the worker calls after func.call(); the worker
\* goes on to process().
Decrement(j) ==
    /\ j > 0
    /\ pc[j] = "dec"
    /\ active' = active - 1
    /\ pc' = [pc EXCEPT ![j] = "check"]
    /\ UNCHANGED <<notPool, finished, queue, bound, nJobs, nextJob, held, mine, ret, slot,
                   panicked, joinVars>>

\* The mutant of JoinTest below: the slot is tested once, with `if` in place
\* of `while`, so a woken thread goes on to the match on value.take().
JoinTestOnce(h, from) ==
    /\ joinPc[h] = from
    /\ IF slot[HandleJob(h)] = None /\ from = "ready"
         THEN /\ joinPc' = [joinPc EXCEPT ![h] = "wait"]
              /\ UNCHANGED <<slot, joinRes>>
         ELSE /\ joinPc' = [joinPc EXCEPT ![h] = "returned"]
              /\ joinRes' = [joinRes EXCEPT
                               ![h] = IF slot[HandleJob(h)] = None
                                        THEN <<"Err", "no result.">>
                                        ELSE <<"Ok", slot[HandleJob(h)][1]>>]
              /\ slot' = [slot EXCEPT ![HandleJob(h)] = None]
    /\ UNCHANGED <<notPool, finished, queue, bound, active, nJobs, nextJob, pc, held, mine, ret,
                   panicked, notified>>

\* ThreadPoolJoinHandle::join, the loop test under the slot's lock: an empty
\* slot sends the thread into cvar.wait (which releases the lock), a full one
\* is taken and returned.
JoinTest(h, from) ==
    /\ joinPc[h] = from
    /\ IF slot[HandleJob(h)] = None
         THEN /\ joinPc' = [joinPc EXCEPT ![h] = "wait"]
              /\ UNCHANGED <<slot, joinRes>>
         ELSE /\ joinPc' = [joinPc EXCEPT ![h] = "returned"]
              /\ joinRes' = [joinRes EXCEPT
                               ![h] = <<"Ok", slot[HandleJob(h)][1]>>]
              /\ slot' = [slot EXCEPT ![HandleJob(h)] = None]
    /\ UNCHANGED <<notPool, finished, queue, bound, active, nJobs, nextJob, pc, held, mine, ret,
                   panicked, notified>>

\* join() is called on a handle run() has returned.
JoinEnter(j) == JoinTest(j, "ready")

\* cvar.wait returns after a notify_one ...
JoinWakeNotified(j) ==
    /\ joinPc[j] = "wait"
    /\ notified[j]
    /\ joinPc' = [joinPc EXCEPT ![j] = "woken"]
    /\ notified' = [notified EXCEPT ![j] = FALSE]
    /\ UNCHANGED <<notPool, poolVars, joinRes>>

\* ... or spuriously.
JoinWakeSpurious(j) ==
    /\ joinPc[j] = "wait"
    /\ joinPc' = [joinPc EXCEPT ![j] = "woken"]
    /\ UNCHANGED <<notPool, poolVars, joinRes, notified>>

\* The woken thread holds the lock again and repeats the loop test.
JoinRetest(j) == JoinTest(j, "woken")

\* The steps of the pool's threads; unit is the value of a ThreadPool closure
\* (FnOnce() -> ()).
PoolNext ==
    \/ \E t \in Threads : Spawn(t)
    \/ \E t \in Threads : ProcessCheck(t)
    \/ \E t \in Threads : Increment(t)
    \/ \E t \in Threads : SpawnThread(t)
    \/ \E t \in Threads : RunReturn(t)
    \/ \E j \in Jobs : JobCallReturn(j, "unit")
    \/ \E j \in Jobs : JobCallPanic(j)
    \/ \E j \in Jobs : JobStore(j)
    \/ \E j \in Jobs : Decrement(j)

PoolInit ==
    /\ \E b \in 0..MaxBound : PoolNew(b, MaxJobs, MaxSubmitters)
    /\ TaskUnused
    /\ AllUnused
    /\ FoldUnused
    /\ BuildUnused
    /\ QueueUnused
    /\ IntervalUnused
    /\ StreamUnused

SpecPool == PoolInit /\ [][PoolNext]_vars

\* Jobs whose func.call() is in progress.
Executing == {j \in Jobs : pc[j] \in {"run", "store"}}

\* No thread of the pool is between two steps and no submitted job is pending
\* in some thread's hands.
PoolQuiescent ==
    /\ \A t \in Threads : pc[t] \in {"idle", "none", "done", "dead"}
    /\ \A t \in Threads : held[t] = NoJob

\* C1: for a pool of capacity n, the active count and the number of jobs
\* executing concurrently never exceed n.
C1_ActiveWithinBound ==
    /\ active <= bound
    /\ Cardinality(Executing) <= bound

\* C2: with capacity n >= 1 and no panicking job, once the pool is quiescent
\* the queue is empty and every job passed to spawn has run and completed.
C2_QuiescentPoolDrained ==
    (bound >= 1 /\ PoolQuiescent /\ \A j \in Jobs : ~panicked[j])
        => /\ queue = <<>>
           /\ \A j \in Jobs : j < nextJob => pc[j] = "done"

C2_Witness ==
    /\ bound = 1
    /\ PoolQuiescent
    /\ nextJob = MaxJobs + 1
    /\ \A j \in Jobs : pc[j] = "done"
    /\ queue = <<>>

(***************************************************************************)
(* The thread-pool backend of Scheduler with the threads that join the     *)
(* handles: one thread calls run() SchedJobs times, as in                  *)
(* create_threadpool_sequential_result.                                    *)
(***************************************************************************)
SchedNext ==
    \/ \E t \in Threads : Spawn(t)
    \/ \E t \in Threads : ProcessCheck(t)
    \/ \E t \in Threads : Increment(t)
    \/ \E t \in Threads : SpawnThread(t)
    \/ \E t \in Threads : RunReturn(t)
    \/ \E j \in Jobs, v \in Values : JobCallReturn(j, v)
    \/ \E j \in Jobs : JobCallPanic(j)
    \/ \E j \in Jobs : JobStore(j)
    \/ \E j \in Jobs : Decrement(j)
    \/ \E j \in Jobs : JoinEnter(j)
    \/ \E j \in Jobs : JoinWakeNotified(j)
    \/ \E j \in Jobs : JoinWakeSpurious(j)
    \/ \E j \in Jobs : JoinRetest(j)

SchedInit ==
    /\ \E b \in 1..MaxBound : PoolNew(b, SchedJobs, 1)
    /\ TaskUnused
    /\ AllUnused
    /\ FoldUnused
    /\ BuildUnused
    /\ QueueUnused
    /\ IntervalUnused
    /\ StreamUnused

SpecSched == SchedInit /\ [][SchedNext]_vars

\* A step of the submitting thread, of job j's worker thread, of the thread
\* joining job j's handle (without the spurious wake-up, which nothing
\* guarantees to happen).
SubmitterStep ==
    Spawn(0 - 1) \/ ProcessCheck(0 - 1) \/ Increment(0 - 1)
        \/ SpawnThread(0 - 1) \/ RunReturn(0 - 1)

WorkerStep(j) ==
    \/ \E v \in Values : JobCallReturn(j, v)
    \/ JobCallPanic(j) \/ JobStore(j) \/ Decrement(j)
    \/ ProcessCheck(j) \/ Increment(j) \/ SpawnThread(j)

JoinerStep(j) == JoinEnter(j) \/ JoinWakeNotified(j) \/ JoinRetest(j)

\* Every thread that can take a step eventually takes one.
FairSpecSched ==
    /\ SpecSched
    /\ WF_vars(SubmitterStep)
    /\ \A j \in 1..SchedJobs : WF_vars(WorkerStep(j)) /\ WF_vars(JoinerStep(j))

\* C3: when a closure scheduled on the thread-pool backend panics, join on its
\* handle eventually returns Err.
C3_PanicJoinReturnsErr ==
    \A j \in 1..SchedJobs :
        (panicked[j] /\ joinPc[j] \in {"wait", "woken"})
            ~> (joinPc[j] = "returned" /\ joinRes[j][1] = "Err")


(***************************************************************************)
(* Task: Task::new, Task::then and Task::wait (task.rs).                   *)
(*                                                                         *)
(* A task is written [base |-> b, fs |-> <<c1, .., ck>>]: the task         *)
(* Task::new(b).then(c1)...then(ck).  A closure given to Task::new either  *)
(* sends a value and returns what send returned, returns Ok(()) without    *)
(* sending, returns an Err it made itself, or panics.  A continuation gets *)
(* the antecedent's Result<T, RecvError> and returns a Task::new task.     *)
(***************************************************************************)
NoVal == "-"

BaseTasks ==
    {[kind |-> "send", val |-> v] : v \in Values}
        \cup {[kind |-> k, val |-> NoVal] : k \in {"nosend", "err", "panic"}}

Conts == {"same", "swap", "nosend", "boom"}

Other(v) == IF v = "a" THEN "b" ELSE "a"

\* The task a continuation returns for the antecedent's result r.
ApplyCont(c, r) ==
    CASE c = "same" -> IF r[1] = "Ok" THEN [kind |-> "send", val |-> r[2]]
                                      ELSE [kind |-> "nosend", val |-> NoVal]
      [] c = "swap" -> IF r[1] = "Ok" THEN [kind |-> "send", val |-> Other(r[2])]
                                      ELSE [kind |-> "send", val |-> "a"]
      [] c = "nosend" -> [kind |-> "nosend", val |-> NoVal]
      [] c = "boom" -> [kind |-> "panic", val |-> NoVal]

RECURSIVE ContSeqs(_)
ContSeqs(k) ==
    IF k = 0 THEN {<<>>}
    ELSE ContSeqs(k - 1)
           \cup {Append(q, c) : q \in {x \in ContSeqs(k - 1) : Len(x) = k - 1},
                                c \in Conts}

\* Task::new(closure)
TaskNew(b) == [base |-> b, fs |-> <<>>]

\* Task::then(self, func): the antecedent and the continuation are only stored.
TaskThen(task, c) == [base |-> task.base, fs |-> Append(task.fs, c)]

\* The antecedent (self) of a then-task.
Antecedent(task) ==
    [base |-> task.base, fs |-> SubSeq(task.fs, 1, Len(task.fs) - 1)]

AllTasks(k) == {[base |-> b, fs |-> q] : b \in BaseTasks, q \in ContSeqs(k)}

Level(task) == Len(task.fs)

\* Task::wait, line 171: a frame for the call, with its sync_channel(1).
Frame(task) ==
    [task |-> task, pc |-> "call", buf |-> <<>>, tx |-> TRUE, sent |-> NoVal,
     cres |-> "-", inner |-> [kind |-> "-", val |-> NoVal]]

Top == tstack[Len(tstack)]

SetTop(f) == [tstack EXCEPT ![Len(tstack)] = f]

Running(p) == Len(tstack) > 0 /\ Top.pc = p

\* The frame that called the top one, and whether the top one is the wait on
\* the task a continuation returned.
Caller == tstack[Len(tstack) - 1]

OfInner == Len(tstack) > 1 /\ Caller.pc = "unwrap"

\* A panic unwinds every wait call of the thread.
Panic ==
    /\ tstack' = <<>>
    /\ tout' = <<"Panic">>
    /\ UNCHANGED <<ttask, treg>>

\* The thread calls wait on its task.
WaitEnter ==
    /\ tstack = <<>>
    /\ tout = <<"None">>
    /\ tstack' = <<Frame(ttask)>>
    /\ tlog' = Append(tlog, <<"drive", Level(ttask), <<>>, NoVal>>)
    /\ UNCHANGED <<ttask, treg, tout, notTask>>

\* self.func.call(sender) for a Task::new closure that sends: TaskSender::send
\* consumes the sender; the buffer of one takes the value at once, and the
\* closure returns send's Ok.
ClosureSend ==
    /\ Running("call")
    /\ Level(Top.task) = 0
    /\ Top.task.base.kind = "send"
    /\ tstack' = SetTop([Top EXCEPT !.buf = Append(@, Top.task.base.val),
                                    !.sent = Top.task.base.val,
                                    !.tx = FALSE,
                                    !.cres = "Ok",
                                    !.pc = "match"])
    /\ UNCHANGED <<ttask, treg, tout, tlog, notTask>>

\* The mutant of ClosureReturn below: the sender outlives the closure.
ClosureReturnKeepsSender ==
    /\ Running("call")
    /\ Level(Top.task) = 0
    /\ Top.task.base.kind \in {"nosend", "err"}
    /\ tstack' = SetTop([Top EXCEPT
                           !.cres = IF Top.task.base.kind = "err" THEN "Err"
                                                                  ELSE "Ok",
                           !.pc = "match"])
    /\ UNCHANGED <<ttask, treg, tout, tlog, notTask>>

\* A Task::new closure that returns without sending, Ok(()) or an Err of its
\* own: the sender it was given is dropped as it returns.
ClosureReturn ==
    /\ Running("call")
    /\ Level(Top.task) = 0
    /\ Top.task.base.kind \in {"nosend", "err"}
    /\ tstack' = SetTop([Top EXCEPT
                           !.tx = FALSE,
                           !.cres = IF Top.task.base.kind = "err" THEN "Err"
                                                                  ELSE "Ok",
                           !.pc = "match"])
    /\ UNCHANGED <<ttask, treg, tout, tlog, notTask>>

\* A Task::new closure that panics.
ClosurePanic ==
    /\ Running("call")
    /\ Level(Top.task) = 0
    /\ Top.task.base.kind = "panic"
    /\ Panic
    /\ UNCHANGED <<tlog, notTask>>

\* Task::then closure, line 138: self.wait() is called first.
ThenWaitSelf ==
    /\ Running("call")
    /\ Level(Top.task) > 0
    /\ tstack' = Append(SetTop([Top EXCEPT !.pc = "self"]),
                        Frame(Antecedent(Top.task)))
    /\ tlog' = Append(tlog, <<"drive", Level(Top.task) - 1, <<>>, NoVal>>)
    /\ UNCHANGED <<ttask, treg, tout, notTask>>

\* The mutant of ThenCall below: func is called with a result of its own
\* making instead of the antecedent's.
ThenCallDefault ==
    /\ Running("self")
    /\ tstack' = SetTop([Top EXCEPT
            !.inner = ApplyCont(Top.task.fs[Level(Top.task)], <<"Ok", "a">>),
            !.pc = "inner"])
    /\ tlog' = Append(tlog, <<"call", Level(Top.task), <<"Ok", "a">>, NoVal>>)
    /\ UNCHANGED <<ttask, treg, tout, notTask>>

\* Task::then closure, line 138: func(self.wait()), once self.wait() has
\* returned; func returns the second task.
ThenCall ==
    /\ Running("self")
    /\ tstack' = SetTop([Top EXCEPT
            !.inner = ApplyCont(Top.task.fs[Level(Top.task)], treg),
            !.pc = "inner"])
    /\ tlog' = Append(tlog, <<"call", Level(Top.task), treg, NoVal>>)
    /\ UNCHANGED <<ttask, treg, tout, notTask>>

\* Task::then closure, line 139: result.wait() drives the task func returned.
ThenWaitInner ==
    /\ Running("inner")
    /\ tstack' = Append(SetTop([Top EXCEPT !.pc = "unwrap"]),
                        Frame(TaskNew(Top.inner)))
    /\ tlog' = Append(tlog, <<"driveinner", Level(Top.task), <<>>, NoVal>>)
    /\ UNCHANGED <<ttask, treg, tout, notTask>>

\* Task::then closure, line 139: unwrap() of the second task's result panics on
\* Err(RecvError); otherwise the value is sent and the closure returns send's Ok.
ThenSend ==
    /\ Running("unwrap")
    /\ IF treg[1] = "Ok"
         THEN /\ tstack' = SetTop([Top EXCEPT !.buf = Append(@, treg[2]),
                                              !.sent = treg[2],
                                              !.tx = FALSE,
                                              !.cres = "Ok",
                                              !.pc = "match"])
              /\ tlog' = Append(tlog, <<"send", Level(Top.task), treg, treg[2]>>)
              /\ UNCHANGED <<ttask, treg, tout>>
         ELSE /\ Panic
              /\ tlog' = Append(tlog, <<"unwrap", Level(Top.task), treg, NoVal>>)
    /\ UNCHANGED notTask

\* Task::wait, lines 173-175: the match on what the closure returned.
WaitMatch ==
    /\ Running("match")
    /\ IF Top.cres = "Err"
         THEN Panic
         ELSE /\ tstack' = SetTop([Top EXCEPT !.pc = "recv"])
              /\ UNCHANGED <<ttask, treg, tout>>
    /\ UNCHANGED <<tlog, notTask>>

\* Whether recv() returns on a channel with this buffer, and (RecvValue) what
\* it returns: the oldest buffered value, or RecvError once no sender is left.
RecvReady(buf, tx) == buf /= <<>> \/ ~tx

\* The mutant of RecvValue: the value is not the one that was sent.
RecvValueOther(buf, tx) ==
    IF buf /= <<>> THEN <<"Ok", Other(Head(buf))>> ELSE <<"Err">>

RecvValue(buf, tx) == IF buf /= <<>> THEN <<"Ok", Head(buf)>> ELSE <<"Err">>

\* Task::wait, line 175: receiver.recv() ends the call.
WaitRecv ==
    /\ Running("recv")
    /\ RecvReady(Top.buf, Top.tx)
    /\ LET r == RecvValue(Top.buf, Top.tx) IN
         /\ treg' = r
         /\ tstack' = SubSeq(tstack, 1, Len(tstack) - 1)
         /\ tout' = IF Len(tstack) = 1 THEN r ELSE tout
         /\ tlog' = Append(tlog, IF OfInner
                                    THEN <<"innerresult", Level(Caller.task), r,
                                           Top.sent>>
                                    ELSE <<"result", Level(Top.task), r,
                                           Top.sent>>)
    /\ UNCHANGED <<ttask, notTask>>

TaskNext ==
    \/ WaitEnter
    \/ ClosureSend
    \/ ClosureReturn
    \/ ClosurePanic
    \/ ThenWaitSelf
    \/ ThenCall
    \/ ThenWaitInner
    \/ ThenSend
    \/ WaitMatch
    \/ WaitRecv

TaskInit ==
    /\ \E task \in AllTasks(MaxChain) : TaskStart(task)
    /\ PoolUnused
    /\ AllUnused
    /\ FoldUnused
    /\ BuildUnused
    /\ QueueUnused
    /\ IntervalUnused
    /\ StreamUnused

SpecTask == TaskInit /\ [][TaskNext]_vars


\* The outermost wait call has ended.
Finished == tstack = <<>> /\ tout /= <<"None">>

\* The thread is inside recv() on an empty channel whose sender is alive.
Blocked == Running("recv") /\ ~RecvReady(Top.buf, Top.tx)

Events(ev, l) == {p \in DOMAIN tlog : tlog[p][1] = ev /\ tlog[p][2] = l}

C5_WaitPanicsWithoutSend ==
    (Finished /\ Level(ttask) = 0 /\ ttask.base.kind \in {"nosend", "err"})
        => tout = <<"Panic">>

\* C5, amended: wait on a task whose closure returns Ok(()) without sending
\* returns Err(RecvError); wait panics only when the closure returns Err; it
\* never blocks and never returns a value.
C5_WaitWithoutSendReturnsErr ==
    /\ (Finished /\ Level(ttask) = 0 /\ ttask.base.kind = "nosend")
           => tout = <<"Err">>
    /\ (Finished /\ Level(ttask) = 0 /\ ttask.base.kind = "err")
           => tout = <<"Panic">>
    /\ ~Blocked

C5_Witness ==
    /\ Finished
    /\ ttask = TaskNew([kind |-> "nosend", val |-> NoVal])
    /\ tout = <<"Err">>

WaitOutcome(b) ==
    CASE b.kind = "send" -> <<"Ok", b.val>>
      [] b.kind = "nosend" -> <<"Err">>
      [] OTHER -> <<"Panic">>

\* The closure of job j returns the Result its wait call returned.
AllJobReturn(j) ==
    /\ WaitOutcome(atasks[j]) /= <<"Panic">>
    /\ JobCallReturn(j, WaitOutcome(atasks[j]))

\* The wait call of job j panics: the job's thread unwinds.
AllJobPanic(j) ==
    /\ WaitOutcome(atasks[j]) = <<"Panic">>
    /\ JobCallPanic(j)

\* The channel behind the Handle of job j: the value the job's closure
\* returned is sent on it, and its sender is gone once the job's thread has
\* sent or has unwound.
HandleChan(j) ==
    [buf |-> slot[j],
     tx |-> ~panicked[j] /\ pc[j] \in {"none", "run", "store"}]

\* The mutant of AllSubmitted below: without the collect between the two
\* maps, a handle is waited on as soon as async has returned it.
AllSubmittedSoFar == nextJob > aidx /\ pc[0 - 1] = "idle"

\* The first pass is over: async has returned a handle for every task.
AllSubmitted == nextJob > nJobs /\ pc[0 - 1] = "idle"

\* The mutant of CollectStep: the vector is built back to front.
CollectStepPrepend(v, x) ==
    IF x[1] = "Ok" THEN [acc |-> <<x[2]>> \o v, res |-> "Ok"]
                   ELSE [acc |-> v, res |-> "Err"]

\* The mutant of CollectStep: an Err is skipped.
CollectStepSkipErr(v, x) ==
    IF x[1] = "Ok" THEN [acc |-> Append(v, x[2]), res |-> "Ok"]
                   ELSE [acc |-> v, res |-> "Ok"]

\* One item of collect::<Result<Vec<_>, RecvError>>: an Ok is appended, an Err
\* ends the collection.
CollectStep(v, x) ==
    IF x[1] = "Ok" THEN [acc |-> Append(v, x[2]), res |-> "Ok"]
                   ELSE [acc |-> v, res |-> "Err"]

\* handle.wait().unwrap() on the next handle, and collect's step on the Result
\* the job returned; unwrap panics when the job's thread has unwound.
AllWaitHandle ==
    /\ apc = "collect"
    /\ ares = "Ok"
    /\ AllSubmitted
    /\ aidx <= nJobs
    /\ RecvReady(HandleChan(aidx).buf, HandleChan(aidx).tx)
    /\ LET r == RecvValue(HandleChan(aidx).buf, HandleChan(aidx).tx) IN
         IF r[1] = "Err"
           THEN /\ apc' = "panicked"
                /\ aout' = <<"Panic">>
                /\ UNCHANGED <<aidx, acc, ares>>
           ELSE /\ acc' = CollectStep(acc, r[2]).acc
                /\ ares' = CollectStep(acc, r[2]).res
                /\ aidx' = aidx + 1
                /\ UNCHANGED <<apc, aout>>
    /\ UNCHANGED <<atasks, abuf, poolVars, notAll>>

\* The mutant of AllMatch below: the Err is sent on as the all-task's result.
AllMatchSendsErr ==
    /\ apc = "collect"
    /\ AllSubmitted
    /\ ares = "Err" \/ aidx > nJobs
    /\ IF ares = "Ok"
         THEN /\ abuf' = <<acc>>
              /\ apc' = "recv"
              /\ UNCHANGED aout
         ELSE /\ apc' = "done"
              /\ aout' = <<"Err">>
              /\ UNCHANGED abuf
    /\ UNCHANGED <<atasks, aidx, acc, ares, poolVars, notAll>>

\* match result: Ok(value) => sender.send(value), Err(error) => panic!(error)
AllMatch ==
    /\ apc = "collect"
    /\ AllSubmitted
    /\ ares = "Err" \/ aidx > nJobs
    /\ IF ares = "Ok"
         THEN /\ abuf' = <<acc>>
              /\ apc' = "recv"
              /\ UNCHANGED aout
         ELSE /\ apc' = "panicked"
              /\ aout' = <<"Panic">>
              /\ UNCHANGED abuf
    /\ UNCHANGED <<atasks, aidx, acc, ares, poolVars, notAll>>

\* Task::wait on the all-task: the closure returned Ok, receiver.recv() ends
\* the call.
AllRecv ==
    /\ apc = "recv"
    /\ RecvReady(abuf, FALSE)
    /\ aout' = RecvValue(abuf, FALSE)
    /\ apc' = "done"
    /\ UNCHANGED <<atasks, aidx, acc, ares, abuf, poolVars, notAll>>

AllNext ==
    \/ Spawn(0 - 1)
    \/ \E t \in Threads : ProcessCheck(t)
    \/ \E t \in Threads : Increment(t)
    \/ \E t \in Threads : SpawnThread(t)
    \/ RunReturn(0 - 1)
    \/ \E j \in Jobs : AllJobReturn(j)
    \/ \E j \in Jobs : AllJobPanic(j)
    \/ \E j \in Jobs : JobStore(j)
    \/ \E j \in Jobs : Decrement(j)
    \/ AllWaitHandle
    \/ AllMatch
    \/ AllRecv

AllInit ==
    /\ \E n \in 0..MaxAll :
         \E ts \in [1..n -> BaseTasks], b \in 1..MaxBound :
             AllStart(ts) /\ PoolNew(b, n, 1)
    /\ TaskUnused
    /\ StreamUnused
    /\ FoldUnused
    /\ BuildUnused
    /\ QueueUnused
    /\ IntervalUnused

SpecAll == AllInit /\ [][AllNext]_vars

\* The wait call on the all-task has ended.
AllEnded == apc \in {"done", "panicked"}

AllSucceed == \A i \in DOMAIN atasks : atasks[i].kind = "send"

\* C7: when every task given to all succeeds, the wait on the all-task returns
\* a vector with one element per task, the i-th being the i-th task's result,
\* whatever the order in which the tasks complete.
C7_AllKeepsInputOrder ==
    (AllSucceed /\ AllEnded)
        => /\ aout[1] = "Ok"
           /\ Len(aout[2]) = Len(atasks)
           /\ \A i \in DOMAIN atasks : aout[2][i] = atasks[i].val

\* The second task completed first, and the vector still has the first task's
\* result first.
C7_Witness ==
    /\ apc = "done"
    /\ Len(atasks) >= 2
    /\ AllSucceed
    /\ atasks[1].val = "b"
    /\ atasks[2].val = "a"
    /\ Len(finished) >= 2
    /\ finished[1] = 2
    /\ aout[1] = "Ok"
    /\ aout[2][1] = "b"
    /\ aout[2][2] = "a"

\* C8: when a task given to all fails, the wait on the all-task never returns
\* Ok of a vector.
C8_AllNeverOkAfterFailure ==
    (\E i \in DOMAIN atasks : atasks[i].kind /= "send") => aout[1] /= "Ok"

\* The first task completed without a value, the second produced one, and the
\* wait on the all-task panicked.
C8_Witness ==
    /\ apc = "panicked"
    /\ Len(atasks) >= 2
    /\ atasks[1].kind = "nosend"
    /\ atasks[2].kind = "send"
    /\ slot[2] = Some(<<"Ok", atasks[2].val>>)
    /\ aout = <<"Panic">>

(***************************************************************************)
(* Stream.  Reading a stream creates a channel and spawns a thread that    *)
(* runs the stream's closure with the channel's sender.  The closure of a  *)
(* source sends its values one after the other and stops at the first send *)
(* that fails (try!).                                                      *)
(***************************************************************************)

\* The bound of channel(), which never blocks a send.
Unbounded == 0 - 1

ValueSeqs(n) == UNION {[1..m -> Values] : m \in 0..n}

\* The mutant of HasRoom: a send never waits for room.
HasRoomAlways(c) == TRUE

\* Whether a send on channel c can put its item: a rendezvous channel holds
\* the item of one blocked sender.
HasRoom(c) ==
    \/ scap[c] = Unbounded
    \/ Len(sbuf[c]) < (IF scap[c] = 0 THEN 1 ELSE scap[c])

\* Whether the receiver of channel c exists: the consumer holds the one it
\* reads, merge's thread for source c holds the one of source c.
RxAlive(c) ==
    IF c = cchan THEN cpc = "recv" ELSE rpc[c] \in {"recv", "put", "await"}

\* The mutant of TxAlive: the clones the merge threads hold do not keep the
\* merged channel open.
TxAliveCreatorOnly(c) ==
    IF c = 0 THEN mpc = "spawn" ELSE ppc[c] \in {"put", "await"}

\* Whether channel c has a sender: the thread of source c holds the one of
\* channel c; the merge closure holds the one of channel 0 until it has
\* spawned its threads, and each of these holds a clone.
TxAlive(c) ==
    IF c = 0
      THEN \/ mpc = "spawn"
           \/ \E i \in DOMAIN rpc : rpc[i] \in {"read", "recv", "put", "await"}
      ELSE ppc[c] \in {"put", "await"}

\* The mutant of ChanPush: the channel is a stack.
ChanPushFront(buf, item) == <<item>> \o buf

\* A channel is a queue: send puts at the back, recv takes from the front.
ChanPush(buf, item) == Append(buf, item)

\* The threads' positions after an item is taken from channel c: on a
\* rendezvous channel the send of the item's sender returns Ok at that moment.
PpcAfterTake(c) ==
    IF c >= 1 /\ scap[c] = 0 THEN [ppc EXCEPT ![c] = "put"] ELSE ppc

PposAfterTake(c) ==
    IF c >= 1 /\ scap[c] = 0 THEN [ppos EXCEPT ![c] = @ + 1] ELSE ppos

RpcAfterTake(c) ==
    IF c = 0 /\ scap[c] = 0
      THEN [rpc EXCEPT ![Head(sbuf[c])[2]] = "recv"] ELSE rpc

RlastAfterTake(c) ==
    IF c = 0 /\ scap[c] = 0
      THEN [rlast EXCEPT ![Head(sbuf[c])[2]] = "Ok"] ELSE rlast

\* sender.send(v) in the closure of source i: Err when the receiver is gone,
\* also for a send that is blocked; else the item is put when there is room,
\* and on a rendezvous channel the call goes on until the item is received.
ProducerSend(i) ==
    /\ ppc[i] \in {"put", "await"}
    /\ ppc[i] = "put" => ppos[i] <= Len(sitems[i])
    /\ IF ~RxAlive(i)
         THEN /\ ppc' = [ppc EXCEPT ![i] = "err"]
              /\ UNCHANGED <<sbuf, ppos>>
         ELSE /\ ppc[i] = "put"
              /\ HasRoom(i)
              /\ sbuf' = [sbuf EXCEPT
                            ![i] = ChanPush(@, <<sitems[i][ppos[i]], i>>)]
              /\ IF scap[i] = 0
                   THEN /\ ppc' = [ppc EXCEPT ![i] = "await"]
                        /\ UNCHANGED ppos
                   ELSE /\ ppos' = [ppos EXCEPT ![i] = @ + 1]
                        /\ UNCHANGED ppc
    /\ UNCHANGED <<sitems, sop, scap, rpc, rheld, rlast, mpc, midx, cchan, cpc,
                   received, notStream>>

\* The closure of source i returns after its last send: its sender is dropped.
ProducerReturn(i) ==
    /\ ppc[i] = "put"
    /\ ppos[i] > Len(sitems[i])
    /\ ppc' = [ppc EXCEPT ![i] = "ok"]
    /\ UNCHANGED <<sitems, sop, scap, sbuf, ppos, rpc, rheld, rlast, mpc, midx,
                   cchan, cpc, received, notStream>>

\* The consumer's recv() (or the next step of its for loop) returns an item.
ConsumerRecv ==
    /\ cpc = "recv"
    /\ sbuf[cchan] /= <<>>
    /\ received' = Append(received, Head(sbuf[cchan]))
    /\ sbuf' = [sbuf EXCEPT ![cchan] = Tail(@)]
    /\ ppc' = PpcAfterTake(cchan)
    /\ ppos' = PposAfterTake(cchan)
    /\ rpc' = RpcAfterTake(cchan)
    /\ rlast' = RlastAfterTake(cchan)
    /\ UNCHANGED <<sitems, sop, scap, rheld, mpc, midx, cchan, cpc, notStream>>

\* The consumer's recv() returns Err: the channel is empty and has no sender.
ConsumerEnd ==
    /\ cpc = "recv"
    /\ sbuf[cchan] = <<>>
    /\ ~TxAlive(cchan)
    /\ cpc' = "ended"
    /\ UNCHANGED <<sitems, sop, scap, sbuf, ppc, ppos, rpc, rheld, rlast, mpc, midx,
                   cchan, received, notStream>>

\* The consumer drops the receiver.
ConsumerDrop ==
    /\ cpc = "recv"
    /\ cpc' = "dropped"
    /\ UNCHANGED <<sitems, sop, scap, sbuf, ppc, ppos, rpc, rheld, rlast, mpc, midx,
                   cchan, received, notStream>>

\* One stream read with read() (bound 0), read_bounded(b) or sync(b), or with
\* async() (an unbounded channel).
StreamNext ==
    \/ ProducerSend(1)
    \/ ProducerReturn(1)
    \/ ConsumerRecv
    \/ ConsumerEnd
    \/ ConsumerDrop

StreamInit ==
    /\ \E vs \in ValueSeqs(MaxItems), b \in (0..MaxBuf) \cup {Unbounded} :
           StreamStart(<<vs>>, <<b>>, 1, "none")
    /\ sop = Forward
    /\ PoolUnused
    /\ TaskUnused
    /\ AllUnused
    /\ FoldUnused
    /\ BuildUnused
    /\ QueueUnused
    /\ IntervalUnused

SpecStream == StreamInit /\ [][StreamNext]_vars

\* The values of a sequence of items.
ItemValues(q) == [p \in DOMAIN q |-> q[p][1]]

\* The values whose send returned Ok in the closure of source i.
SentOk(i) == SubSeq(sitems[i], 1, ppos[i] - 1)

\* C9: what the consumer has received is, in order, the values of the first
\* sends that returned Ok in the closure, what the channel holds are the values
\* of the sends after these, and once the stream is read to its end the
\* received values are exactly those of the sends that returned Ok, whatever
\* the bound.
C9_ReadKeepsSendOrder ==
    /\ Len(received) <= Len(SentOk(1))
    /\ ItemValues(received) = SubSeq(SentOk(1), 1, Len(received))
    /\ Len(received) + Len(sbuf[1]) <= Len(sitems[1])
    /\ ItemValues(received \o sbuf[1])
         = SubSeq(sitems[1], 1, Len(received) + Len(sbuf[1]))
    /\ cpc = "ended" => ItemValues(received) = SentOk(1)

\* A stream of three sends, the first two of different values, read to its end
\* through a channel that buffers two items.
C9_Witness ==
    /\ cpc = "ended"
    /\ scap[1] = 2
    /\ Len(sitems[1]) >= 3
    /\ sitems[1][1] /= sitems[1][2]
    /\ Len(received) = Len(sitems[1])
    /\ ppos[1] = Len(sitems[1]) + 1

(***************************************************************************)
(* Stream::merge.  Reading the merged stream runs the merge closure on a   *)
(* thread of its own, with the sender of channel 0.  The closure spawns    *)
(* one thread per source, each with a clone of the sender, then joins      *)
(* them in order.  The thread for source i reads the source and sends      *)
(* every item it receives:                                                 *)
(*   stream.read().into_iter().map(|n| sender.send(n)).last().unwrap()     *)
(***************************************************************************)

\* The merge closure spawns the thread for the next source.
MergeSpawn ==
    /\ mpc = "spawn"
    /\ midx <= Len(sitems)
    /\ rpc' = [rpc EXCEPT ![midx] = "read"]
    /\ midx' = midx + 1
    /\ UNCHANGED <<sitems, sop, scap, sbuf, ppc, ppos, rheld, rlast, mpc, cchan, cpc,
                   received, notStream>>

\* The first collect of the merge closure is over: the map closure that owns
\* the sender is dropped, and the joins begin.
MergeSpawned ==
    /\ mpc = "spawn"
    /\ midx > Len(sitems)
    /\ mpc' = "join"
    /\ midx' = 1
    /\ UNCHANGED <<sitems, sop, scap, sbuf, ppc, ppos, rpc, rheld, rlast, cchan, cpc,
                   received, notStream>>

\* stream.read() in the thread for source i: the thread of the source starts.
RelayRead(i) ==
    /\ rpc[i] = "read"
    /\ rpc' = [rpc EXCEPT ![i] = "recv"]
    /\ ppc' = [ppc EXCEPT ![i] = "put"]
    /\ UNCHANGED <<sitems, sop, scap, sbuf, ppos, rheld, rlast, mpc, midx, cchan, cpc,
                   received, notStream>>

\* The iterator over the source's receiver yields an item.
RelayRecv(i) ==
    /\ rpc[i] = "recv"
    /\ sbuf[i] /= <<>>
    /\ rheld' = [rheld EXCEPT ![i] = Head(sbuf[i])]
    /\ sbuf' = [sbuf EXCEPT ![i] = Tail(@)]
    /\ rpc' = [rpc EXCEPT ![i] = "put"]
    /\ ppc' = PpcAfterTake(i)
    /\ ppos' = PposAfterTake(i)
    /\ UNCHANGED <<sitems, sop, scap, rlast, mpc, midx, cchan, cpc, received,
                   notStream>>

\* The iterator ends: last() is the result of the last send, and unwrap
\* panics when there was none.
RelayEnd(i) ==
    /\ rpc[i] = "recv"
    /\ sbuf[i] = <<>>
    /\ ~TxAlive(i)
    /\ rpc' = [rpc EXCEPT ![i] = IF rlast[i] = "None" THEN "panicked" ELSE "done"]
    /\ UNCHANGED <<sitems, sop, scap, sbuf, ppc, ppos, rheld, rlast, mpc, midx, cchan,
                   cpc, received, notStream>>

\* The mutant of RelaySend: the item is not put on the merged channel.
RelaySendDrop(i) ==
    /\ rpc[i] = "put"
    /\ rlast' = [rlast EXCEPT ![i] = "Ok"]
    /\ rpc' = [rpc EXCEPT ![i] = "recv"]
    /\ UNCHANGED <<sitems, sop, scap, sbuf, ppc, ppos, rheld, mpc, midx, cchan, cpc,
                   received, notStream>>

\* The mutant of RelaySend: the merged channel is a stack without a bound.
RelaySendFront(i) ==
    /\ rpc[i] = "put"
    /\ sbuf' = [sbuf EXCEPT ![0] = <<rheld[i]>> \o @]
    /\ rlast' = [rlast EXCEPT ![i] = "Ok"]
    /\ rpc' = [rpc EXCEPT ![i] = "recv"]
    /\ UNCHANGED <<sitems, sop, scap, ppc, ppos, rheld, mpc, midx, cchan, cpc,
                   received, notStream>>

\* sender.send(n) on the merged channel: Err when the receiver is gone, also
\* for a send that is blocked; the map goes on after an Err.
RelaySend(i) ==
    /\ rpc[i] \in {"put", "await"}
    /\ IF ~RxAlive(0)
         THEN /\ rlast' = [rlast EXCEPT ![i] = "Err"]
              /\ rpc' = [rpc EXCEPT ![i] = "recv"]
              /\ UNCHANGED sbuf
         ELSE /\ rpc[i] = "put"
              /\ HasRoom(0)
              /\ sbuf' = [sbuf EXCEPT ![0] = ChanPush(@, rheld[i])]
              /\ IF scap[0] = 0
                   THEN /\ rpc' = [rpc EXCEPT ![i] = "await"]
                        /\ UNCHANGED rlast
                   ELSE /\ rlast' = [rlast EXCEPT ![i] = "Ok"]
                        /\ rpc' = [rpc EXCEPT ![i] = "recv"]
    /\ UNCHANGED <<sitems, sop, scap, ppc, ppos, rheld, mpc, midx, cchan, cpc,
                   received, notStream>>

\* handle.join() on the next thread: an Err (the thread panicked) ends the
\* collect and the closure panics.
MergeJoin ==
    /\ mpc = "join"
    /\ midx <= Len(sitems)
    /\ rpc[midx] \in {"done", "panicked"}
    /\ IF rpc[midx] = "panicked"
         THEN mpc' = "panicked" /\ UNCHANGED midx
         ELSE midx' = midx + 1 /\ UNCHANGED mpc
    /\ UNCHANGED <<sitems, sop, scap, sbuf, ppc, ppos, rpc, rheld, rlast, cchan, cpc,
                   received, notStream>>

\* Every thread is joined: the closure returns the first Err among the send
\* results, or Ok.
MergeReturn ==
    /\ mpc = "join"
    /\ midx > Len(sitems)
    /\ mpc' = IF \E i \in DOMAIN rlast : rlast[i] = "Err" THEN "err" ELSE "ok"
    /\ UNCHANGED <<sitems, sop, scap, sbuf, ppc, ppos, rpc, rheld, rlast, midx, cchan,
                   cpc, received, notStream>>

Sources == DOMAIN sitems

MergeNext ==
    \/ MergeSpawn
    \/ MergeSpawned
    \/ \E i \in Sources : RelayRead(i)
    \/ \E i \in Sources : ProducerSend(i)
    \/ \E i \in Sources : ProducerReturn(i)
    \/ \E i \in Sources : RelayRecv(i)
    \/ \E i \in Sources : RelaySend(i)
    \/ \E i \in Sources : RelayEnd(i)
    \/ MergeJoin
    \/ MergeReturn
    \/ ConsumerRecv
    \/ ConsumerEnd

\* The values a source of a merge emits: n values, the sources next to each
\* other emitting the same values in a different order.
MergeSource(i, n) == [j \in 1..n |-> IF (i + j) % 2 = 0 THEN "a" ELSE "b"]

\* The lengths of k sources that emit at most t values in all.
RECURSIVE SourceLengths(_, _)
SourceLengths(k, t) ==
    IF k = 0 THEN {<<>>}
    ELSE UNION {{Append(q, m) : q \in SourceLengths(k - 1, t - m)} : m \in 0..t}

\* Stream::merge(streams).read(), the consumer reading to the end: every
\* channel is a sync_channel(0).
MergeInit ==
    /\ \E k \in 0..MergeSources :
         \E n \in SourceLengths(k, MergeItems) :
             StreamStart([i \in 1..k |-> MergeSource(i, n[i])],
                         [c \in 0..k |-> 0], 0, "spawn")
    /\ sop = Forward
    /\ PoolUnused
    /\ TaskUnused
    /\ AllUnused
    /\ FoldUnused
    /\ BuildUnused
    /\ QueueUnused
    /\ IntervalUnused

SpecMerge == MergeInit /\ [][MergeNext]_vars

\* The bag of the elements of a sequence.
BagOfSeq(q) ==
    [v \in {q[p] : p \in DOMAIN q} |-> Cardinality({p \in DOMAIN q : q[p] = v})]

\* The bag of the values the first k sources emit.
RECURSIVE EmittedBag(_)
EmittedBag(k) ==
    IF k = 0 THEN EmptyBag ELSE EmittedBag(k - 1) (+) BagOfSeq(sitems[k])

\* C10: the values received from a merged stream are values its sources
\* emitted, each no more often than emitted, and once the merged stream is read
\* to its end they are exactly the values of all sources, each as often as
\* emitted.
C10_MergeKeepsEveryItem ==
    /\ BagOfSeq(ItemValues(received)) \sqsubseteq EmittedBag(Len(sitems))
    /\ cpc = "ended"
         => BagOfSeq(ItemValues(received)) = EmittedBag(Len(sitems))

\* Two sources that both emit a and b, in different orders, merged and read to
\* the end, an item of the second source arriving first.
C10_Witness ==
    /\ cpc = "ended"
    /\ Len(sitems) >= 2
    /\ sitems[1] = <<"a", "b">>
    /\ sitems[2] = <<"b", "a">>
    /\ Len(received) = 4
    /\ received[1][2] = 2

\* The items of q that come from source i, in the order of q.
FromSource(q, i) == SelectSeq(q, LAMBDA e : e[2] = i)

\* C11: in what the consumer of a merged stream has received, the items of
\* each source are the first values that source emitted, in emission order.
C11_MergeKeepsSourceOrder ==
    \A i \in Sources :
        /\ Len(FromSource(received, i)) <= Len(sitems[i])
        /\ ItemValues(FromSource(received, i))
             = SubSeq(sitems[i], 1, Len(FromSource(received, i)))

\* Two sources of two values each, read to the end with their items
\* alternating, the second source first.
C11_Witness ==
    /\ cpc = "ended"
    /\ Len(sitems) >= 2
    /\ Len(sitems[1]) = 2
    /\ Len(sitems[2]) = 2
    /\ Len(received) = 4
    /\ received[1][2] = 2
    /\ received[2][2] = 1
    /\ received[3][2] = 2
    /\ received[4][2] = 1

(***************************************************************************)
(* Stream::filter and Stream::map.  Reading the new stream runs its        *)
(* closure on a thread with the sender of channel 0; the closure reads the *)
(* source and sends the items it keeps, transformed:                       *)
(*   self.read().into_iter().filter(|n| func(n))                           *)
(*              .map(|n| sender.send(n)).last().unwrap()                   *)
(*   self.read().into_iter().map(|n| sender.send(func(n)))                 *)
(*              .last().unwrap()                                           *)
(***************************************************************************)

\* The predicates of filter (the set of values they accept) and the functions
\* of map.
StageOps ==
    {[kind |-> "filter", keep |-> P, fn |-> [v \in Values |-> v]] :
        P \in SUBSET Values}
      \cup {[kind |-> "map", keep |-> Values, fn |-> f] : f \in [Values -> Values]}

\* The mutant of StageKeeps: the predicate is not consulted.
StageKeepsAll(op, v) == TRUE

\* filter(|n| func(n))
StageKeeps(op, v) == v \in op.keep

\* The mutant of StageValue: the function is not applied.
StageValueSame(op, v) == v

\* func(n) in map
StageValue(op, v) == op.fn[v]

\* The iterator over the source's receiver yields an item; an item the
\* predicate rejects is skipped, one that is kept is passed on to send.
StageRecv(i) ==
    /\ rpc[i] = "recv"
    /\ sbuf[i] /= <<>>
    /\ sbuf' = [sbuf EXCEPT ![i] = Tail(@)]
    /\ ppc' = PpcAfterTake(i)
    /\ ppos' = PposAfterTake(i)
    /\ IF StageKeeps(sop, Head(sbuf[i])[1])
         THEN /\ rheld' = [rheld EXCEPT
                             ![i] = <<StageValue(sop, Head(sbuf[i])[1]), i>>]
              /\ rpc' = [rpc EXCEPT ![i] = "put"]
         ELSE UNCHANGED <<rheld, rpc>>
    /\ UNCHANGED <<sitems, sop, scap, rlast, mpc, midx, cchan, cpc, received,
                   notStream>>

StageNext ==
    \/ RelayRead(1)
    \/ ProducerSend(1)
    \/ ProducerReturn(1)
    \/ StageRecv(1)
    \/ RelaySend(1)
    \/ RelayEnd(1)
    \/ ConsumerRecv
    \/ ConsumerEnd
    \/ ConsumerDrop

\* s.filter(p) or s.map(f) read with read(), read_bounded(b) or async(): the
\* thread of the stage is about to read s.
StageInit ==
    /\ \E vs \in ValueSeqs(MaxItems), op \in StageOps,
          b \in (0..MaxBuf) \cup {Unbounded} :
           /\ sitems = <<vs>>
           /\ sop = op
           /\ scap = [c \in 0..1 |-> IF c = 0 THEN b ELSE 0]
    /\ sbuf = [c \in 0..1 |-> <<>>]
    /\ ppc = <<"none">>
    /\ ppos = <<1>>
    /\ rpc = <<"read">>
    /\ rheld = <<<<>>>>
    /\ rlast = <<"None">>
    /\ mpc = "none"
    /\ midx = 1
    /\ cchan = 0
    /\ cpc = "recv"
    /\ received = <<>>
    /\ PoolUnused
    /\ TaskUnused
    /\ AllUnused
    /\ FoldUnused
    /\ BuildUnused
    /\ QueueUnused
    /\ IntervalUnused

SpecStage == StageInit /\ [][StageNext]_vars

\* The values of q that satisfy the predicate, and the images of the values of
\* q under the function.
Filtered(q) == SelectSeq(q, LAMBDA v : v \in sop.keep)

Mapped(q) == [p \in DOMAIN q |-> sop.fn[q[p]]]

\* C12: what is received from s.filter(p) are the first of the values of s
\* that satisfy p, in the order s emits them, and all of them once the stream
\* is read to its end.
C12_FilterYieldsSubsequence ==
    sop.kind = "filter"
        => /\ Len(received) <= Len(Filtered(sitems[1]))
           /\ ItemValues(received)
                = SubSeq(Filtered(sitems[1]), 1, Len(received))
           /\ cpc = "ended" => ItemValues(received) = Filtered(sitems[1])

\* A stream whose second value is rejected and whose other values are kept,
\* read to its end.
C12_Witness ==
    /\ sop.kind = "filter"
    /\ cpc = "ended"
    /\ Len(sitems[1]) >= 3
    /\ sitems[1][1] \in sop.keep
    /\ sitems[1][2] \notin sop.keep
    /\ Len(received) = Len(sitems[1]) - 1

\* C13: what is received from s.map(f) are the images under f of the first
\* values of s, one for each, in the order s emits them, and the images of all
\* once the stream is read to its end.
C13_MapYieldsImages ==
    sop.kind = "map"
        => /\ Len(received) <= Len(sitems[1])
           /\ ItemValues(received)
                = SubSeq(Mapped(sitems[1]), 1, Len(received))
           /\ cpc = "ended" => ItemValues(received) = Mapped(sitems[1])

\* A stream of two different values mapped by a function that exchanges them,
\* read to its end.
C13_Witness ==
    /\ sop.kind = "map"
    /\ cpc = "ended"
    /\ Len(sitems[1]) >= 2
    /\ sitems[1][1] /= sitems[1][2]
    /\ sop.fn[sitems[1][1]] = sitems[1][2]
    /\ sop.fn[sitems[1][2]] = sitems[1][1]
    /\ Len(received) = Len(sitems[1])
    /\ received[1][1] = sitems[1][2]

(***************************************************************************)
(* Stream::fold.  The task's closure runs on the thread that waits on the  *)
(* task: it reads the stream, folds the items as they arrive, and sends    *)
(* the result on the task's channel:                                       *)
(*   sender.send(self.read().into_iter().fold(init, func))                 *)
(***************************************************************************)

FoldFns == [Values \X Values -> Values]

\* The mutant of FoldStep: the arguments of func are exchanged.
FoldStepSwapped(f, a, v) == f[<<v, a>>]

\* One step of Iterator::fold: func(accumulator, item).
FoldStep(f, a, v) == f[<<a, v>>]

\* The iterator over the stream's receiver yields an item, which is folded in.
FoldRecv ==
    /\ cpc = "recv"
    /\ sbuf[cchan] /= <<>>
    /\ facc' = FoldStep(fop.fn, facc, Head(sbuf[cchan])[1])
    /\ sbuf' = [sbuf EXCEPT ![cchan] = Tail(@)]
    /\ ppc' = PpcAfterTake(cchan)
    /\ ppos' = PposAfterTake(cchan)
    /\ UNCHANGED <<sitems, sop, scap, rpc, rheld, rlast, mpc, midx, cchan, cpc,
                   received, fop, fout, notFold>>

\* sender.send(result) on the task's channel, then Task::wait's recv().
FoldDeliver ==
    /\ cpc = "ended"
    /\ cpc' = "done"
    /\ fout' = RecvValue(<<facc>>, FALSE)
    /\ UNCHANGED <<sitems, sop, scap, sbuf, ppc, ppos, rpc, rheld, rlast, mpc,
                   midx, cchan, received, fop, facc, notFold>>

FoldNext ==
    \/ ProducerSend(1)
    \/ ProducerReturn(1)
    \/ FoldRecv
    \/ ConsumerEnd
    \/ FoldDeliver

FoldInit ==
    /\ \E vs \in ValueSeqs(MaxItems) : StreamStart(<<vs>>, <<0>>, 1, "none")
    /\ sop = Forward
    /\ \E f \in FoldFns, init \in Values : FoldStart(f, init)
    /\ PoolUnused
    /\ TaskUnused
    /\ AllUnused
    /\ BuildUnused
    /\ QueueUnused
    /\ IntervalUnused

SpecFold == FoldInit /\ [][FoldNext]_vars

\* f(...f(f(init, q[1]), q[2])..., q[Len(q)])
RECURSIVE LeftFold(_, _, _)
LeftFold(f, init, q) ==
    IF q = <<>> THEN init
    ELSE f[<<LeftFold(f, init, SubSeq(q, 1, Len(q) - 1)), q[Len(q)]>>]

\* C14: the accumulator is the left fold of the items received so far, and the
\* wait on s.fold(init, f) returns the left fold of all the values of s, in
\* emission order: init when s emits nothing.
C14_FoldIsLeftFold ==
    /\ facc = LeftFold(fop.fn, fop.init, SentOk(1))
    /\ cpc = "done" => fout = <<"Ok", LeftFold(fop.fn, fop.init, sitems[1])>>

\* A fold whose result differs from the fold with the arguments exchanged and
\* from the fold of the values in reverse order.
C14_Witness ==
    /\ cpc = "done"
    /\ Len(sitems[1]) = 2
    /\ fout[1] = "Ok"
    /\ fout[2] /= fop.fn[<<sitems[1][2], fop.fn[<<sitems[1][1], fop.init>>]>>]
    /\ fout[2] /= LeftFold(fop.fn, fop.init, <<sitems[1][2], sitems[1][1]>>)

\* C15: on a channel of bound b, the sends that have returned Ok and whose
\* items are not yet received are at most b, and the channel never holds more
\* than b items, or one (that of the blocked sender) when b is 0; with b = 0 a
\* send returns Ok only when its item is received.
C15_SendsAheadWithinBound ==
    scap[1] /= Unbounded
        => /\ Len(SentOk(1)) - Len(received) <= scap[1]
           /\ Len(SentOk(1)) - Len(received) >= 0
           /\ Len(sbuf[1]) <= (IF scap[1] = 0 THEN 1 ELSE scap[1])
           /\ scap[1] = 0 /\ ppc[1] = "await" => Len(sbuf[1]) = 1

\* A producer with a value left to send while the channel of bound 1 holds an
\* item, one item having been received.
C15_Witness ==
    /\ scap[1] = 1
    /\ Len(sbuf[1]) = 1
    /\ Len(received) = 1
    /\ ppc[1] = "put"
    /\ ppos[1] <= Len(sitems[1])
    /\ cpc = "recv"

(***************************************************************************)
(* Stream::sync and Stream::async of smoke/async/stream.rs.  They differ   *)
(* from read and read_bounded in what the spawned thread does with the     *)
(* closure's result: self.func.call(emit).unwrap().                        *)
(***************************************************************************)

\* The closure returned Err (a send of its failed): unwrap panics.
ProducerUnwrap(i) ==
    /\ ppc[i] = "err"
    /\ ppc' = [ppc EXCEPT ![i] = "panicked"]
    /\ UNCHANGED <<sitems, sop, scap, sbuf, ppos, rpc, rheld, rlast, mpc, midx,
                   cchan, cpc, received, notStream>>

SyncNext ==
    \/ ProducerSend(1)
    \/ ProducerReturn(1)
    \/ ProducerUnwrap(1)
    \/ ConsumerRecv
    \/ ConsumerEnd
    \/ ConsumerDrop

SpecSync == StreamInit /\ [][SyncNext]_vars

\* C16: after the consumer has dropped the receiver, the producer's closure
\* makes no further successful send, and the producer's thread does not panic.
C16_DroppedReceiverEndsProducerQuietly ==
    /\ cpc = "dropped" => Len(SentOk(1)) <= Len(received) + Len(sbuf[1])
    /\ ppc[1] /= "panicked"


(***************************************************************************)
(* Scheduler::run and JoinHandle::join for both backends (scheduler.rs).   *)
(* The thread backend spawns one thread per closure and keeps its std      *)
(* JoinHandle in Arc<Mutex<Option<..>>>; join locks the mutex, takes the   *)
(* handle and joins the thread while still holding the guard.              *)
(***************************************************************************)
MaxClones == 1

Backends == {"pool", "thread"}

\* ThreadScheduler::run: thread::spawn(f) starts the closure at once and the
\* handle is returned to the caller.
ThreadRun(t) ==
    /\ t < 0
    /\ pc[t] = "idle"
    /\ nextJob <= nJobs
    /\ pc' = [pc EXCEPT ![nextJob] = "run"]
    /\ hopt' = [hopt EXCEPT ![nextJob] = TRUE]
    /\ joinPc' = [h \in Joiners |->
                    IF HandleJob(h) = nextJob THEN "ready" ELSE joinPc[h]]
    /\ nextJob' = nextJob + 1
    /\ UNCHANGED <<notSched, backend, hlock, finished, queue, bound, active, nJobs, held,
                   mine, ret, slot, panicked, joinRes, notified>>

\* The spawned thread's closure returns v and the thread ends.
ThreadJobReturn(j, v) ==
    /\ j > 0
    /\ pc[j] = "run"
    /\ pc' = [pc EXCEPT ![j] = "done"]
    /\ ret' = [ret EXCEPT ![j] = Some(v)]
    /\ finished' = Append(finished, j)
    /\ UNCHANGED <<notPool, queue, bound, active, nJobs, nextJob, held, mine, slot,
                   panicked, joinVars>>

\* ThreadJoinHandle::join up to handle.join(): lock().unwrap() blocks while
\* another thread holds the guard and panics on a poisoned mutex; take()
\* yields the handle once, and panic!() for None unwinds with the guard held,
\* which poisons the mutex.
ThreadJoinLock(h) ==
    /\ joinPc[h] = "ready"
    /\ hlock[HandleJob(h)] # "held"
    /\ IF hlock[HandleJob(h)] = "poisoned"
         THEN /\ joinPc' = [joinPc EXCEPT ![h] = "panicked"]
              /\ UNCHANGED <<hlock, hopt>>
         ELSE IF hopt[HandleJob(h)]
                THEN /\ joinPc' = [joinPc EXCEPT ![h] = "joining"]
                     /\ hlock' = [hlock EXCEPT ![HandleJob(h)] = "held"]
                     /\ hopt' = [hopt EXCEPT ![HandleJob(h)] = FALSE]
                ELSE /\ joinPc' = [joinPc EXCEPT ![h] = "panicked"]
                     /\ hlock' = [hlock EXCEPT ![HandleJob(h)] = "poisoned"]
                     /\ UNCHANGED hopt
    /\ UNCHANGED <<notSched, poolVars, backend, joinRes, notified>>

\* std's JoinHandle::join returns when the thread has ended: Ok(value), or
\* Err if the thread panicked; the guard is dropped on return.
ThreadJoinDone(h) ==
    /\ joinPc[h] = "joining"
    /\ pc[HandleJob(h)] \in {"done", "dead"}
    /\ joinPc' = [joinPc EXCEPT ![h] = "returned"]
    /\ joinRes' = [joinRes EXCEPT
                     ![h] = IF panicked[HandleJob(h)]
                              THEN <<"Err", "panic">>
                              ELSE <<"Ok", ret[HandleJob(h)][1]>>]
    /\ hlock' = [hlock EXCEPT ![HandleJob(h)] = "free"]
    /\ UNCHANGED <<notSched, poolVars, backend, hopt, notified>>

\* Scheduler::run, the closure's return, and JoinHandle::join: each matches
\* on the backend.
SchedulerRun(t) == IF backend = "pool" THEN Spawn(t) ELSE ThreadRun(t)

FuncReturn(j, v) ==
    IF backend = "pool" THEN JobCallReturn(j, v) ELSE ThreadJobReturn(j, v)

HandleJoin(h) == IF backend = "pool" THEN JoinEnter(h) ELSE ThreadJoinLock(h)

BackendNext ==
    \/ \E t \in Threads : SchedulerRun(t)
    \/ \E t \in Threads : ProcessCheck(t)
    \/ \E t \in Threads : Increment(t)
    \/ \E t \in Threads : SpawnThread(t)
    \/ \E t \in Threads : RunReturn(t)
    \/ \E j \in Jobs, v \in Values : FuncReturn(j, v)
    \/ \E j \in Jobs : JobCallPanic(j)
    \/ \E j \in Jobs : JobStore(j)
    \/ \E j \in Jobs : Decrement(j)
    \/ \E h \in Joiners : HandleJoin(h)
    \/ \E h \in Joiners : ThreadJoinDone(h)
    \/ \E h \in Joiners : JoinWakeNotified(h)
    \/ \E h \in Joiners : JoinWakeSpurious(h)
    \/ \E h \in Joiners : JoinRetest(h)

\* One thread gives SchedJobs closures to a scheduler of either backend, and
\* each handle is joined by a thread of its own.
BackendInit ==
    /\ \E be \in Backends, b \in 1..MaxBound : SchedNew(be, b, SchedJobs, 1, 0)
    /\ TaskUnused
    /\ AllUnused
    /\ FoldUnused
    /\ BuildUnused
    /\ QueueUnused
    /\ IntervalUnused
    /\ StreamUnused

SpecBackend == BackendInit /\ [][BackendNext]_vars

\* C17: on either backend, a join that returns for a closure that returned
\* yields that closure's own value, whatever the order in which closures
\* finish and handles are joined.
C17_JoinYieldsOwnValue ==
    \A h \in Joiners :
        (joinPc[h] = "returned" /\ ~panicked[HandleJob(h)])
            => joinRes[h] = <<"Ok", ret[HandleJob(h)][1]>>

C17_Witness ==
    /\ nJobs = 2
    /\ finished = <<2, 1>>
    /\ ret[1] # ret[2]
    /\ joinPc[1] = "returned"
    /\ joinPc[2] = "returned"
    /\ joinRes[1] = <<"Ok", ret[1][1]>>
    /\ joinRes[2] = <<"Ok", ret[2][1]>>

(***************************************************************************)
(* The task schedulers and WaitHandle (scheduling.rs).  run(task) makes a  *)
(* sync_channel(1), keeps the receiver in the WaitHandle and calls the     *)
(* task's closure with the sender: on the calling thread (SyncScheduler),  *)
(* on a thread of its own (ThreadScheduler) or on a worker of the          *)
(* threadpool crate (ThreadPoolScheduler), whose pool of `bound` workers   *)
(* replaces a worker that panics.  The variables of the pool are reused:   *)
(*   pc[j]     : the call of task j's closure: none, run, done, dead       *)
(*   ret[j]    : what the closure did, once it has ended                   *)
(*   slot[j]   : the buffer of task j's channel                            *)
(*   joinPc[h] : the thread that waits on handle h                         *)
(***************************************************************************)
TaskSchedulers == {"sync", "thread", "pool"}

\* What a task's closure does with its TaskSender: the kinds of BaseTasks,
\* or a send followed by a panic.
TaskOutcomes ==
    BaseTasks \cup {[kind |-> "sendpanic", val |-> v] : v \in Values}

\* The mutant of CallPanics below.
CallPanicsNever(o) == FALSE

\* The call of the closure unwinds the thread it runs on: the closure panics,
\* or it returns Err and the scheduler's match panics.
CallPanics(o) == o.kind \in {"panic", "sendpanic", "err"}

\* The channel's buffer after the closure has run: send on the empty
\* sync_channel(1) puts the value.
SlotAfter(o) == IF o.kind \in {"send", "sendpanic"} THEN Some(o.val) ELSE None

\* The mutant of SendBlocks below: a rendezvous channel, on which a send waits
\* for a receiver.
SendBlocksAlways(n) == TRUE

\* A send on the sync_channel(1) of a handle blocks while n values are
\* buffered and the buffer of one is full.
SendBlocks(n) == n >= 1

\* SyncScheduler::run: the closure is called before `handle` is returned, so
\* a send that blocks would block the calling thread for good.
SyncSchedulerRun(t, o) ==
    /\ backend = "sync"
    /\ t < 0
    /\ pc[t] = "idle"
    /\ nextJob <= nJobs
    /\ IF o.kind \in {"send", "sendpanic"} /\ SendBlocks(0)
         THEN /\ pc' = [pc EXCEPT ![t] = "blocked", ![nextJob] = "run"]
              /\ UNCHANGED <<ret, slot, joinPc>>
         ELSE /\ ret' = [ret EXCEPT ![nextJob] = Some(o)]
              /\ slot' = [slot EXCEPT ![nextJob] = SlotAfter(o)]
              /\ IF CallPanics(o)
                   THEN /\ pc' = [pc EXCEPT ![t] = "panicked",
                                            ![nextJob] = "dead"]
                        /\ UNCHANGED joinPc
                   ELSE /\ pc' = [pc EXCEPT ![nextJob] = "done"]
                        /\ joinPc' = [joinPc EXCEPT ![nextJob] = "ready"]
    /\ nextJob' = nextJob + 1
    /\ UNCHANGED <<notPool, finished, queue, bound, active, nJobs, held, mine, panicked,
                   joinRes, notified>>

\* ThreadScheduler::run: thread::spawn of the call, and the handle.
ThreadSchedulerRun(t) ==
    /\ backend = "thread"
    /\ t < 0
    /\ pc[t] = "idle"
    /\ nextJob <= nJobs
    /\ pc' = [pc EXCEPT ![nextJob] = "run"]
    /\ joinPc' = [joinPc EXCEPT ![nextJob] = "ready"]
    /\ nextJob' = nextJob + 1
    /\ UNCHANGED <<notPool, finished, queue, bound, active, nJobs, held, mine, ret, slot,
                   panicked, joinRes, notified>>

\* ThreadPoolScheduler::run: threadpool.execute queues the call, and the
\* handle.
ThreadPoolSchedulerRun(t) ==
    /\ backend = "pool"
    /\ t < 0
    /\ pc[t] = "idle"
    /\ nextJob <= nJobs
    /\ queue' = Append(queue, nextJob)
    /\ joinPc' = [joinPc EXCEPT ![nextJob] = "ready"]
    /\ nextJob' = nextJob + 1
    /\ UNCHANGED <<notPool, finished, bound, active, nJobs, held, mine, pc, ret, slot,
                   panicked, joinRes, notified>>

\* A free worker of the pool takes the oldest queued call.
PoolWorkerTake(j) ==
    /\ backend = "pool"
    /\ queue # <<>>
    /\ Head(queue) = j
    /\ active < bound
    /\ queue' = Tail(queue)
    /\ active' = active + 1
    /\ pc' = [pc EXCEPT ![j] = "run"]
    /\ UNCHANGED <<notPool, finished, bound, nJobs, nextJob, held, mine, ret, slot,
                   panicked, joinVars>>

\* task.func.call(TaskSender::new(sender)) on the spawned thread or the
\* worker, and the scheduler's match on its result.  The sender was moved
\* into the call, so it is dropped when the call ends, however it ends; a
\* worker that ends or unwinds leaves room for the next call.
TaskFuncCall(j, o) ==
    /\ j > 0
    /\ pc[j] = "run"
    /\ ret' = [ret EXCEPT ![j] = Some(o)]
    /\ slot' = [slot EXCEPT ![j] = SlotAfter(o)]
    /\ pc' = [pc EXCEPT ![j] = IF CallPanics(o) THEN "dead" ELSE "done"]
    /\ panicked' = [panicked EXCEPT ![j] = CallPanics(o)]
    /\ active' = IF backend = "pool" THEN active - 1 ELSE active
    /\ UNCHANGED <<notPool, finished, queue, bound, nJobs, nextJob, held, mine, joinVars>>

\* The mutant of SenderDropped below: a thread that unwinds keeps its sender.
SenderDroppedOnReturn(j) == pc[j] = "done"

\* Every sender of task j's channel is gone.
SenderDropped(j) == pc[j] \in {"done", "dead"}

\* WaitHandle::wait: receiver.recv() returns the buffered value, or Err once
\* the channel is empty and its sender is gone, and blocks otherwise.
HandleWait(h) ==
    /\ joinPc[h] = "ready"
    /\ slot[h] # None \/ SenderDropped(h)
    /\ joinPc' = [joinPc EXCEPT ![h] = "returned"]
    /\ joinRes' = [joinRes EXCEPT
                     ![h] = IF slot[h] # None THEN <<"Ok", slot[h][1]>>
                                             ELSE <<"Err", "RecvError">>]
    /\ slot' = [slot EXCEPT ![h] = None]
    /\ UNCHANGED <<notPool, finished, queue, bound, active, nJobs, nextJob, pc, held, mine,
                   ret, panicked, notified>>

WaitNext ==
    \/ \E t \in Threads, o \in TaskOutcomes : SyncSchedulerRun(t, o)
    \/ \E t \in Threads : ThreadSchedulerRun(t)
    \/ \E t \in Threads : ThreadPoolSchedulerRun(t)
    \/ \E j \in Jobs : PoolWorkerTake(j)
    \/ \E j \in Jobs, o \in TaskOutcomes : TaskFuncCall(j, o)
    \/ \E h \in Joiners : HandleWait(h)

\* One thread schedules SchedJobs tasks on one of the three schedulers; each
\* handle is waited on by a thread of its own.
WaitInit ==
    /\ \E be \in TaskSchedulers, b \in 1..MaxBound :
           SchedNew(be, b, SchedJobs, 1, 0)
    /\ TaskUnused
    /\ AllUnused
    /\ FoldUnused
    /\ BuildUnused
    /\ QueueUnused
    /\ IntervalUnused
    /\ StreamUnused

SpecWait == WaitInit /\ [][WaitNext]_vars

\* The scheduling thread, the thread or worker running task j, and the thread
\* waiting on handle j, each take the steps they can take.
FairSpecWait ==
    /\ SpecWait
    /\ WF_vars(\E o \in TaskOutcomes : SyncSchedulerRun(0 - 1, o))
    /\ WF_vars(ThreadSchedulerRun(0 - 1))
    /\ WF_vars(ThreadPoolSchedulerRun(0 - 1))
    /\ \A j \in 1..SchedJobs :
           /\ WF_vars(PoolWorkerTake(j))
           /\ WF_vars(\E o \in TaskOutcomes : TaskFuncCall(j, o))
           /\ WF_vars(HandleWait(j))

\* Task j's closure has ended in one of the given ways.
Ended(j, kinds) == ret[j] # None /\ ret[j][1].kind \in kinds

Scheduling == 0 - 1

\* C18: under SyncScheduler a task whose closure panics panics the calling
\* thread inside run, and no handle for the task is returned.
C18_SyncPanicsInsideRun ==
    backend = "sync" =>
        \A j \in Jobs :
            Ended(j, {"panic", "sendpanic"})
                => /\ pc[Scheduling] = "panicked"
                   /\ joinPc[j] = "nohandle"

C18_Witness ==
    /\ backend = "sync"
    /\ Ended(1, {"send"})
    /\ joinPc[1] = "returned"
    /\ Ended(2, {"panic"})
    /\ pc[Scheduling] = "panicked"
    /\ joinPc[2] = "nohandle"

\* For the closures of the given kinds under ThreadScheduler and
\* ThreadPoolScheduler: the scheduling thread does not panic, the handle was
\* returned, wait does not return Ok, and wait eventually returns Err.
PanicSeenAsErr(kinds) ==
    /\ [](backend # "sync" =>
            \A j \in 1..SchedJobs :
                Ended(j, kinds)
                    => /\ pc[Scheduling] # "panicked"
                       /\ joinPc[j] # "nohandle"
                       /\ joinRes[j][1] # "Ok")
    /\ \A j \in 1..SchedJobs :
           (backend # "sync" /\ Ended(j, kinds))
               ~> (joinPc[j] = "returned" /\ joinRes[j][1] = "Err")

\* C19, as stated: under ThreadScheduler and ThreadPoolScheduler a task whose
\* closure panics leaves the scheduling thread alone, and wait on its handle
\* eventually returns Err, never Ok.
C19_PanicWaitReturnsErr == PanicSeenAsErr({"panic", "sendpanic"})

\* C19, amended: the same for a closure that panics before it has sent.
C19_PanicBeforeSendWaitReturnsErr == PanicSeenAsErr({"panic"})

C19_Witness ==
    /\ backend = "pool"
    /\ bound = 1
    /\ Ended(1, {"panic"})
    /\ Ended(2, {"panic"})
    /\ pc[Scheduling] = "idle"
    /\ joinPc[2] = "returned"
    /\ joinRes[2][1] = "Err"

(***************************************************************************)
(* Clones of one JoinHandle (scheduler.rs, #[derive(Clone)] JoinHandle):   *)
(* one closure that returns is given to a scheduler of either backend, and *)
(* its handle and MaxClones clones of it are each joined by a thread of    *)
(* its own, in any order and interleaving.                                 *)
(***************************************************************************)
CloneNext ==
    \/ \E t \in Threads : SchedulerRun(t)
    \/ \E t \in Threads : ProcessCheck(t)
    \/ \E t \in Threads : Increment(t)
    \/ \E t \in Threads : SpawnThread(t)
    \/ \E t \in Threads : RunReturn(t)
    \/ \E j \in Jobs, v \in Values : FuncReturn(j, v)
    \/ \E j \in Jobs : JobStore(j)
    \/ \E j \in Jobs : Decrement(j)
    \/ \E h \in Joiners : HandleJoin(h)
    \/ \E h \in Joiners : ThreadJoinDone(h)
    \/ \E h \in Joiners : JoinWakeNotified(h)
    \/ \E h \in Joiners : JoinWakeSpurious(h)
    \/ \E h \in Joiners : JoinRetest(h)

CloneInit ==
    /\ \E be \in Backends, b \in 1..MaxBound : SchedNew(be, b, 1, 1, MaxClones)
    /\ TaskUnused
    /\ AllUnused
    /\ FoldUnused
    /\ BuildUnused
    /\ QueueUnused
    /\ IntervalUnused
    /\ StreamUnused

SpecClones == CloneInit /\ [][CloneNext]_vars

\* A step of the thread that calls run, of the thread that runs the closure,
\* and of the thread that joins handle h (without the spurious wake-up).
RunnerStep ==
    \/ SchedulerRun(Scheduling) \/ ProcessCheck(Scheduling)
    \/ Increment(Scheduling) \/ SpawnThread(Scheduling)
    \/ RunReturn(Scheduling)

ClosureStep(j) ==
    \/ \E v \in Values : FuncReturn(j, v)
    \/ JobStore(j) \/ Decrement(j)
    \/ ProcessCheck(j) \/ Increment(j) \/ SpawnThread(j)

CloneStep(h) ==
    HandleJoin(h) \/ ThreadJoinDone(h) \/ JoinWakeNotified(h) \/ JoinRetest(h)

FairSpecClones ==
    /\ SpecClones
    /\ WF_vars(RunnerStep)
    /\ WF_vars(ClosureStep(1))
    /\ \A h \in 1..(1 + MaxClones) : WF_vars(CloneStep(h))

\* The join calls that obtained a result.
Obtained == {h \in Joiners : joinPc[h] = "returned" /\ joinRes[h][1] = "Ok"}

\* C20: of the join calls on a handle and its clones, at most one obtains
\* the closure's result, one eventually does, and every join call that was
\* started eventually ends, with the result or with a failure.
C20_OtherJoinsFailAndEnd ==
    /\ [](Cardinality(Obtained) <= 1)
    /\ <>(Cardinality(Obtained) = 1)
    /\ \A h \in 1..(1 + MaxClones) :
           (joinPc[h] = "ready") ~> (joinPc[h] \in {"returned", "panicked"})

(***************************************************************************)
(* The order of the pool's queue and the no-op case of process()           *)
(* (threadpool.rs), checked in SpecPool.  Jobs are numbered by spawn in    *)
(* the critical section that pushes them, so the number of a job is its    *)
(* place in the order of the enqueues.                                     *)
(***************************************************************************)
\* The jobs that were pushed and have been popped since.
Dequeued ==
    {j \in Jobs : j < nextJob /\ \A i \in DOMAIN queue : queue[i] # j}

\* C21: jobs leave the queue in the order spawn enqueued them: the queue
\* holds the jobs in the order of their enqueues, and every job already
\* dequeued was enqueued before every job still queued.
C21_QueueIsFifo ==
    /\ \A i, k \in DOMAIN queue : i < k => queue[i] < queue[k]
    /\ \A i \in DOMAIN queue : \A j \in Dequeued : j < queue[i]

C21_Witness ==
    /\ queue = <<2>>
    /\ \E t \in Threads : t < 0 /\ mine[t] = 2 /\ held[t] = 1

\* C22: a process() call whose test finds the queue empty or active >= bound
\* returns at once, and leaves the queue, the active count and the set of
\* running jobs as they were.
C22_ProcessNoOpWhenNoSlot ==
    [][\A t \in Threads :
          (/\ pc[t] = "check"
           /\ pc'[t] # "check"
           /\ (Len(queue) = 0 \/ active >= bound))
              => /\ pc'[t] = (IF t < 0 THEN "runret" ELSE "done")
                 /\ queue' = queue
                 /\ active' = active
                 /\ held' = held
                 /\ {j \in Jobs : pc'[j] \in {"run", "store"}}
                        = {j \in Jobs : pc[j] \in {"run", "store"}}]_vars

\* A worker's process() has returned with a job left in the queue, because
\* the pool was full.
C22_Witness ==
    /\ bound = 1
    /\ active = 1
    /\ queue = <<2>>
    /\ pc[0 - 2] = "runret"
    /\ mine[0 - 2] = 2

(***************************************************************************)
(* ThreadPoolJoinHandle::join against spurious wake-ups, in SpecSched.     *)
(***************************************************************************)
\* The closure given to the pool for job j is past `*value = Some(result)`.
Stored(j) == pc[j] \in {"dec", "check", "inc", "spawnthread", "done"}

\* C23: join on a thread-pool handle returns only after the scheduled closure
\* has stored its result, however often cvar.wait wakes spuriously, and it
\* returns that result.
C23_JoinReturnsAfterStore ==
    \A h \in Joiners :
        joinPc[h] = "returned"
            => /\ Stored(HandleJob(h))
               /\ joinRes[h] = <<"Ok", ret[HandleJob(h)][1]>>

\* A joining thread has been woken while the closure is still running, and
\* another one has returned.
C23_Witness ==
    /\ joinPc[1] = "returned"
    /\ joinPc[2] = "woken"
    /\ pc[2] = "run"
    /\ slot[2] = None

(***************************************************************************)
(* Clones of one thread-pool Scheduler.  Scheduler, ThreadPoolScheduler    *)
(* and ThreadPool derive Clone, and a clone of ThreadPool is a clone of    *)
(* its Arc<Mutex<ThreadPoolData>>: the submitting threads of SpecPool each *)
(* hold such a clone and share one queue, bound and active count.          *)
(***************************************************************************)
\* The jobs whose closure f is being called.
RunningJobs == {j \in Jobs : pc[j] = "run"}

MaxOps == 3

Constructors == {"new", "output", "range"}

Combinators == {"then", "all", "map", "filter", "merge", "fold"}

TaskTerminals == {"wait", "async"}

StreamTerminals == {"read", "read_bounded"}

\* What an operation returns and what a combinator is applied to.
ResultKind(op) ==
    IF op \in {"new", "then", "all", "fold"} THEN "task" ELSE "stream"

ArgKind(op) == IF op \in {"then", "all"} THEN "task" ELSE "stream"

BuiltKind == ResultKind(build.ops[Len(build.ops)])

\* The mutant of Applied below: the combinator drives its argument at once.
AppliedEagerly(w, op) ==
    [w EXCEPT !.invoked = Append([@ EXCEPT ![Len(@)] = @ + 1], 0),
              !.chans = @ + 1]

\* Task::scheduled and Stream::output box the closure and return; the
\* closures the combinators make only capture their argument.
Applied(w, op) == [w EXCEPT !.invoked = Append(@, 0)]

\* The mutant of Consumed below: a driven value can be used again.
ConsumedNever(b) == FALSE

\* wait, async, read and read_bounded take self by value, and func.call takes
\* Box<Self>: after a terminal operation the value is moved out and no
\* operation on it compiles.
Consumed(b) == b.phase # "build"

Construct(c) ==
    /\ ~Consumed(build)
    /\ build.ops = <<>>
    /\ build' = [build EXCEPT !.ops = <<c>>]
    /\ work' = Applied(work, c)
    /\ UNCHANGED <<poolVars, joinVars, schedVars, taskVars, allVars, streamVars, foldVars,
                   queueVars, timerVars>>

Combine(op) ==
    /\ ~Consumed(build)
    /\ build.ops # <<>>
    /\ Len(build.ops) < MaxOps
    /\ ArgKind(op) = BuiltKind
    /\ build' = [build EXCEPT !.ops = Append(@, op)]
    /\ work' = Applied(work, op)
    /\ UNCHANGED <<poolVars, joinVars, schedVars, taskVars, allVars, streamVars, foldVars,
                   queueVars, timerVars>>

\* A terminal operation is called on the value built so far.
Drive(term) ==
    /\ ~Consumed(build)
    /\ build.ops # <<>>
    /\ term \in (IF BuiltKind = "task" THEN TaskTerminals ELSE StreamTerminals)
    /\ build' = [build EXCEPT !.phase = "down", !.level = Len(build.ops),
                              !.by = term]
    /\ UNCHANGED <<work, poolVars, joinVars, schedVars, taskVars, allVars, streamVars,
                   foldVars, queueVars, timerVars>>

\* How the closure of a combinator drives its argument: then calls
\* self.wait(), all calls task.async(..), merge spawns a relay thread that
\* calls stream.read(), map, filter and fold call self.read().
InnerDriver(op) ==
    CASE op = "then" -> "wait"
      [] op = "all" -> "async"
      [] op = "merge" -> "relay"
      [] OTHER -> "read"

\* The threads and channels of one driving call: wait makes a
\* sync_channel(1); async runs a closure on the scheduler, whose handle has
\* a channel, and that closure calls wait; read and read_bounded make a
\* channel and spawn the producer thread.
ThreadsOf(d) ==
    CASE d = "wait" -> 0
      [] d = "async" -> 1
      [] d = "relay" -> 2
      [] OTHER -> 1

ChansOf(d) == IF d = "async" THEN 2 ELSE 1

\* The func of the Task/Stream at the current level is called by its driver.
Invoke ==
    /\ build.phase = "down"
    /\ LET k == build.level
           d == IF k = Len(build.ops) THEN build.by
                                      ELSE InnerDriver(build.ops[k + 1])
       IN /\ work' = [work EXCEPT
                        !.invoked[k] = @ + 1,
                        !.threads = @ + ThreadsOf(d),
                        !.chans = @ + ChansOf(d),
                        !.ucalls = IF build.ops[k] \in {"new", "output"}
                                     THEN @ + 1 ELSE @]
          /\ build' = IF k > 1 THEN [build EXCEPT !.level = k - 1]
                                ELSE [build EXCEPT !.phase = "up"]
    /\ UNCHANGED <<poolVars, joinVars, schedVars, taskVars, allVars, streamVars, foldVars,
                   queueVars, timerVars>>

\* The result of the argument arrives at the closure of the combinator at the
\* current level, which calls the user's function on it; the task that the
\* function of then returns is waited on in turn.
Result ==
    /\ build.phase = "up"
    /\ LET k == build.level
           op == build.ops[k]
       IN /\ work' = [work EXCEPT
                        !.ucalls = IF op \in {"then", "map", "filter", "fold"}
                                     THEN @ + (IF op = "then" THEN 2 ELSE 1)
                                     ELSE @,
                        !.chans = IF op = "then" THEN @ + 1 ELSE @]
          /\ build' = IF k < Len(build.ops)
                         THEN [build EXCEPT !.level = k + 1]
                         ELSE [build EXCEPT !.phase = "done"]
    /\ UNCHANGED <<poolVars, joinVars, schedVars, taskVars, allVars, streamVars, foldVars,
                   queueVars, timerVars>>

BuildNext ==
    \/ \E c \in Constructors : Construct(c)
    \/ \E op \in Combinators : Combine(op)
    \/ \E term \in TaskTerminals \cup StreamTerminals : Drive(term)
    \/ Invoke
    \/ Result

BuildInit ==
    /\ BuildNew
    /\ QueueUnused
    /\ IntervalUnused
    /\ PoolUnused
    /\ TaskUnused
    /\ AllUnused
    /\ FoldUnused
    /\ StreamUnused

SpecBuild == BuildInit /\ [][BuildNext]_vars

C26_ClosureCalledAtMostOnce ==
    \A k \in DOMAIN work.invoked : work.invoked[k] <= 1

C26_Witness ==
    /\ build.phase = "done"
    /\ Len(build.ops) = 3
    /\ \A k \in DOMAIN work.invoked : work.invoked[k] = 1

(***************************************************************************)
(* Task::all with an input task whose wait returns Err (its closure        *)
(* returns Ok(()) without sending), in SpecAll.                            *)
(***************************************************************************)
\* Some input task yields an Err, and none of them panics.
SomeErrNoPanic ==
    /\ \E i \in DOMAIN atasks : atasks[i].kind = "nosend"
    /\ \A i \in DOMAIN atasks : atasks[i].kind \in {"send", "nosend"}

\* The first input task, in input order, that yields an Err.
FirstErr ==
    CHOOSE i \in DOMAIN atasks :
        /\ atasks[i].kind = "nosend"
        /\ \A k \in 1..(i - 1) : atasks[k].kind = "send"

C28_SyncHandleIsResolved ==
    backend = "sync" =>
        /\ pc[Scheduling] # "blocked"
        /\ \A j \in Jobs :
              /\ joinPc[j] # "nohandle" => pc[j] = "done"
              /\ (joinPc[j] = "ready" /\ Ended(j, {"send"}))
                    => slot[j] = Some(ret[j][1].val)
              /\ (joinPc[j] = "returned" /\ Ended(j, {"send"}))
                    => joinRes[j] = <<"Ok", ret[j][1].val>>
              /\ j < nextJob => ret[j] # None

C28_Witness ==
    /\ backend = "sync"
    /\ Ended(1, {"send"})
    /\ joinPc[1] = "returned"
    /\ joinRes[1] = <<"Ok", ret[1][1].val>>
    /\ Ended(2, {"send"})
    /\ joinPc[2] = "ready"
    /\ slot[2] = Some(ret[2][1].val)

(***************************************************************************)
(* A then-chain with a stage that panics, in SpecTask.                     *)
(***************************************************************************)
\* The task is a then-chain, and the closure of its first task panics or one
\* of its continuations returns a task whose closure panics.
ChainWithPanic ==
    /\ Level(ttask) >= 1
    /\ \/ ttask.base.kind = "panic"
       \/ \E l \in 1..Level(ttask) : ttask.fs[l] = "boom"

\* C29: the wait on a then-chain in which a stage's task panics returns Err
\* to its caller, which does not panic.
C29_ChainPanicReturnsErr ==
    (Finished /\ ChainWithPanic) => tout = <<"Err">>

(***************************************************************************)
(* A filter or map stage that emits no item, in SpecStage: the source is   *)
(* empty or the predicate rejects every item.                              *)
(***************************************************************************)
EmitsNothing == \A k \in DOMAIN sitems[1] : sitems[1][k] \notin sop.keep

\* C30: a stage that emits no item ends without a panic, and its reader gets
\* the empty sequence.
C30_EmptyStreamEndsNormally ==
    EmitsNothing
        => /\ rpc[1] # "panicked"
           /\ received = <<>>

(***************************************************************************)
(* The store/notify of the pool's closure against the check/wait of join,  *)
(* in FairSpecSched.                                                       *)
(***************************************************************************)
\* C31: when a closure scheduled on the thread-pool backend has returned,
\* join on its handle eventually returns Ok with the closure's value.
C31_JoinOfCompletedReturnsOk ==
    \A j \in 1..SchedJobs :
        (ret[j] # None)
            ~> (joinPc[j] = "returned" /\ joinRes[j] = <<"Ok", ret[j][1]>>)

\* The join began to wait before the store, and the store has notified it.
C31_Witness ==
    /\ joinPc[1] = "wait"
    /\ notified[1]
    /\ slot[1] = ret[1]
    /\ ret[1] # None

(***************************************************************************)
(* The two passes of Task::all, in SpecAll.                                *)
(***************************************************************************)
\* The closure of the all-task has waited on a handle.
AllHasWaited == aidx > 1 \/ apc # "collect"

\* C32: Task::all has passed every input task to the scheduler before it
\* waits on any handle.
C32_AllSubmitsBeforeWaiting == AllHasWaited => nextJob > nJobs

\* On a pool of two, the second task has run to its end while the first is
\* still running and no handle was waited on.
C32_Witness ==
    /\ Len(atasks) = 2
    /\ bound = 2
    /\ ~AllHasWaited
    /\ pc[1] = "run"
    /\ pc[2] = "done"
    /\ slot[2] # None

(***************************************************************************)
(* A filter or map stage whose reader has dropped the receiver, in         *)
(* SpecStage.                                                              *)
(***************************************************************************)
\* C33: once a send of the stage has failed, the stage takes no further item
\* from its upstream stream.
C33_StageStopsAtFailedSend ==
    [][rlast[1] = "Err" => Len(sbuf'[1]) >= Len(sbuf[1])]_vars

(***************************************************************************)
(* Nested drives on one bounded pool.  Every Task::new task carries a      *)
(* clone of DEFAULT_TASK_SCHEDULER, so Task::async and Task::all inside a  *)
(* job submit to the pool the job itself runs on.  Job k is                *)
(* func(self.wait()) for a task whose closure drives job k + 1 with async  *)
(* (as Task::all does for each input) and waits on its handle; the last    *)
(* job just returns.  The thread 0 - 1 drives job 1 from outside the pool, *)
(* and the call into the scheduler that job k makes for its child runs as  *)
(* thread 0 - (k + 1).                                                     *)
(***************************************************************************)
NestJobs == 2

\* scheduler.run(..) for job 0 - t, called from outside or from its parent.
NestRun(t) ==
    /\ t < 0
    /\ nextJob = 0 - t
    /\ IF t = 0 - 1 THEN TRUE ELSE pc[(0 - t) - 1] = "run"
    /\ Spawn(t)

\* The closure of job j returns: a parent has its child's result by then.
NestReturn(j, v) ==
    /\ IF j = nJobs THEN TRUE ELSE joinPc[j + 1] = "returned"
    /\ JobCallReturn(j, v)

\* Whoever holds handle h is the outside thread or the running parent job.
NestHolder(h) == IF h = 1 THEN TRUE ELSE pc[h - 1] = "run"

NestNext ==
    \/ \E t \in Threads : NestRun(t)
    \/ \E t \in Threads : ProcessCheck(t)
    \/ \E t \in Threads : Increment(t)
    \/ \E t \in Threads : SpawnThread(t)
    \/ \E t \in Threads : RunReturn(t)
    \/ \E j \in Jobs, v \in Values : NestReturn(j, v)
    \/ \E j \in Jobs : JobStore(j)
    \/ \E j \in Jobs : Decrement(j)
    \/ \E h \in Joiners : NestHolder(h) /\ JoinEnter(h)
    \/ \E h \in Joiners : JoinWakeNotified(h)
    \/ \E h \in Joiners : JoinWakeSpurious(h)
    \/ \E h \in Joiners : JoinRetest(h)

NestInit ==
    /\ \E b \in 1..MaxBound : PoolNew(b, NestJobs, NestJobs)
    /\ TaskUnused
    /\ AllUnused
    /\ FoldUnused
    /\ BuildUnused
    /\ QueueUnused
    /\ IntervalUnused
    /\ StreamUnused

SpecNest == NestInit /\ [][NestNext]_vars

\* No process() call is under way and no closure is about to store.
PoolSettled ==
    \A t \in Threads : pc[t] \in {"idle", "none", "run", "done"}

\* Every slot of the pool is held by a job that waits for its child, and a
\* child is still in the queue.
PoolStarved ==
    /\ PoolSettled
    /\ active >= bound
    /\ queue # <<>>
    /\ \A j \in Jobs :
          pc[j] = "run" => (j < nJobs /\ joinPc[j + 1] \in {"wait", "woken"})

\* C34: the pool never reaches a state in which all its slots are held by
\* jobs waiting on children that are still queued.
C34_NestedDriveNeverStarves == ~PoolStarved

\* The threads of a merge are scheduled: whatever step can be taken is taken
\* in the end.
FairSpecMerge == SpecMerge /\ WF_vars(MergeNext)

\* Every source of the merge has ended: its closure has returned.
SourcesEnded == \A i \in Sources : ppc[i] \in {"ok", "err"}

\* The number of values the first k sources emit.
RECURSIVE EmittedCount(_)
EmittedCount(k) == IF k = 0 THEN 0 ELSE EmittedCount(k - 1) + Len(sitems[k])

\* C35: the iteration over a merged stream ends only after every source has
\* ended and every item of every source was delivered, and it does end: no
\* sender of the merged channel outlives the merge threads.
C35_MergeEndsAfterAllSources ==
    /\ [](cpc = "ended" => SourcesEnded /\ Len(received) = EmittedCount(Len(sitems)))
    /\ <>(cpc = "ended")

\* A merge of two sources that both emit: read to the end, every thread of the
\* merge over.
C35_Witness ==
    /\ cpc = "ended"
    /\ Len(sitems) = 2
    /\ Len(sitems[1]) >= 1 /\ Len(sitems[2]) >= 1
    /\ Len(received) = Len(sitems[1]) + Len(sitems[2])
    /\ mpc = "ok"

\* No job is running and no process() call is in flight: every submitter is
\* outside spawn, and every worker thread either was not started or is over.
PoolAtRest == \A t \in Threads : pc[t] \in {"idle", "runret", "none", "done", "dead"}

\* C36: when no job is running and no process call is in flight the active
\* count of the pool is 0, also after a job has panicked.
C36_IdlePoolHasNoActive == PoolAtRest => active = 0

\* Scheduler::threadpool(b) for any b, 0 included, one thread submitting and
\* each handle joined.
SchedAnyInit ==
    /\ \E b \in 0..MaxBound : PoolNew(b, SchedJobs, 1)
    /\ TaskUnused
    /\ AllUnused
    /\ FoldUnused
    /\ BuildUnused
    /\ QueueUnused
    /\ IntervalUnused
    /\ StreamUnused

SpecSchedAny == SchedAnyInit /\ [][SchedNext]_vars

\* The jobs spawn was called for.
Submitted == 1..(nextJob - 1)

QueueOps == 3
QueueCallers == 2
MaxConcurrency == 2

notQueue == <<poolVars, joinVars, schedVars, taskVars, allVars, streamVars, foldVars,
              buildVars, timerVars>>

Operations == DOMAIN qkind

\* Where a thread is once its process() call has returned: a calling thread
\* has returned from run or resume, an operation's thread is over.
AfterQueueProcess(t) == IF t < 0 THEN "idle" ELSE "over"

\* Queue::run, the push_back under the queue's lock; process() follows.
QueueRun(t) ==
    /\ t < 0
    /\ qpc[t] = "idle"
    /\ qnext \in Operations
    /\ qqueue' = Append(qqueue, qnext)
    /\ qnext' = qnext + 1
    /\ qpc' = [qpc EXCEPT ![t] = "check"]
    /\ UNCHANGED <<qconcurrency, qactive, qpaused, qheld, qkind, notQueue>>

\* Queue::pause
QueuePause(t) ==
    /\ t < 0
    /\ qpc[t] = "idle"
    /\ qpaused' = TRUE
    /\ UNCHANGED <<qqueue, qconcurrency, qactive, qpc, qheld, qnext, qkind, notQueue>>

\* Queue::resume, the block that clears the flag; one process() follows.
QueueResume(t) ==
    /\ t < 0
    /\ qpc[t] = "idle"
    /\ qpaused' = FALSE
    /\ qpc' = [qpc EXCEPT ![t] = "check"]
    /\ UNCHANGED <<qqueue, qconcurrency, qactive, qheld, qnext, qkind, notQueue>>

\* Queue::process, the block under the four locks: the test and the pop.
QueueProcess(t) ==
    /\ qpc[t] = "check"
    /\ IF Len(qqueue) > 0 /\ qactive < qconcurrency /\ ~qpaused
         THEN /\ qheld' = [qheld EXCEPT ![t] = Head(qqueue)]
              /\ qqueue' = Tail(qqueue)
              /\ qpc' = [qpc EXCEPT ![t] = "inc"]
         ELSE /\ qpc' = [qpc EXCEPT ![t] = AfterQueueProcess(t)]
              /\ UNCHANGED <<qqueue, qheld>>
    /\ UNCHANGED <<qconcurrency, qactive, qpaused, qnext, qkind, notQueue>>

\* Queue::increment, called by process() after its locks were released.
QueueIncrement(t) ==
    /\ qpc[t] = "inc"
    /\ qactive' = qactive + 1
    /\ qpc' = [qpc EXCEPT ![t] = "call"]
    /\ UNCHANGED <<qqueue, qconcurrency, qpaused, qheld, qnext, qkind, notQueue>>

\* operation.call(next) in process(): the operation is started.  One that
\* spawns a thread returns, and process() with it; one that calls next
\* before it returns is over, and the thread is inside the next callback.
OperationCall(t) ==
    /\ qpc[t] = "call"
    /\ qpc' = IF qkind[qheld[t]] = "sync"
                THEN [qpc EXCEPT ![t] = "dec"]
                ELSE [qpc EXCEPT ![t] = AfterQueueProcess(t), ![qheld[t]] = "work"]
    /\ qheld' = [qheld EXCEPT ![t] = NoJob]
    /\ UNCHANGED <<qqueue, qconcurrency, qactive, qpaused, qnext, qkind, notQueue>>

\* The thread of operation i calls next: the operation is completed.
NextCall(i) ==
    /\ i > 0
    /\ qpc[i] = "work"
    /\ qpc' = [qpc EXCEPT ![i] = "dec"]
    /\ UNCHANGED <<qqueue, qconcurrency, qactive, qpaused, qheld, qnext, qkind, notQueue>>

\* Queue::decrement in the next callback; process() follows.
QueueDecrement(t) ==
    /\ qpc[t] = "dec"
    /\ qactive' = qactive - 1
    /\ qpc' = [qpc EXCEPT ![t] = "check"]
    /\ UNCHANGED <<qqueue, qconcurrency, qpaused, qheld, qnext, qkind, notQueue>>

QueueNext ==
    \/ \E t \in DOMAIN qpc : QueueRun(t)
    \/ \E t \in DOMAIN qpc : QueuePause(t)
    \/ \E t \in DOMAIN qpc : QueueResume(t)
    \/ \E t \in DOMAIN qpc : QueueProcess(t)
    \/ \E t \in DOMAIN qpc : QueueIncrement(t)
    \/ \E t \in DOMAIN qpc : OperationCall(t)
    \/ \E i \in DOMAIN qpc : NextCall(i)
    \/ \E t \in DOMAIN qpc : QueueDecrement(t)

\* Queue::new(c) shared by the calling threads; Reader and Writer use c = 1.
QueueInit ==
    /\ \E c \in 1..MaxConcurrency, ks \in [1..QueueOps -> {"sync", "thread"}] :
           QueueNew(c, QueueOps, ks, QueueCallers)
    /\ PoolUnused
    /\ TaskUnused
    /\ AllUnused
    /\ FoldUnused
    /\ BuildUnused
    /\ IntervalUnused
    /\ StreamUnused

SpecQueue == QueueInit /\ [][QueueNext]_vars

\* The operations in progress: started, next not yet called.
InProgress == {i \in Operations : qpc[i] = "work"}

\* C38: at most concurrency operations of a Queue are in progress at any
\* time, under any interleaving of run calls and completions.
C38_InProgressWithinConcurrency == Cardinality(InProgress) <= qconcurrency

\* No call on the Queue is in flight: every calling thread has returned,
\* every operation's thread is in its operation or over.
QueueAtRest == \A t \in DOMAIN qpc : qpc[t] \in {"idle", "none", "work", "over"}

\* C39: no slot of a Queue stays idle while operations are queued and the
\* Queue is not paused: once resume has returned, operations are in progress
\* up to the concurrency or the queue is empty.
C39_ResumeFillsEverySlot ==
    (QueueAtRest /\ ~qpaused /\ qqueue # <<>>)
        => Cardinality(InProgress) >= qconcurrency

(***************************************************************************)
(* Interval (smoke/timers/interval.rs): the interval thread, and threads   *)
(* that call clear on a clone.                                             *)
(***************************************************************************)
MaxTicks == 3
MaxClearers == 2

notTimer == <<poolVars, joinVars, schedVars, taskVars, allVars, streamVars, foldVars,
              buildVars, queueVars>>

Clearers == DOMAIN iclear

\* Whether a clear call has returned.
Cleared == \E c \in Clearers : iclear[c] = "returned"

\* The top of the loop: the thread locks callback, interval and started, and
\* holds the three guards to the end of the iteration.
IntervalLock ==
    /\ ipc = "lock"
    /\ ilock = "free"
    /\ icalls < MaxTicks
    /\ ilock' = "thread"
    /\ ipc' = "callback"
    /\ UNCHANGED <<istarted, iclear, icalls, ilate, notTimer>>

\* callback(clone.clone()), the callback leaving the Interval alone.
CallbackReturn ==
    /\ ipc = "callback"
    /\ icalls' = icalls + 1
    /\ ilate' = IF Cleared THEN ilate + 1 ELSE ilate
    /\ ipc' = "sleep"
    /\ UNCHANGED <<istarted, ilock, iclear, notTimer>>

\* callback(clone.clone()), the callback calling clear on its argument: the
\* thread locks a mutex it holds, which does not return: it blocks for ever
\* or panics, and the panic poisons the mutex.
CallbackClear ==
    /\ ipc = "callback"
    /\ icalls' = icalls + 1
    /\ ilate' = IF Cleared THEN ilate + 1 ELSE ilate
    /\ \/ ipc' = "deadlocked" /\ UNCHANGED ilock
       \/ ipc' = "panicked" /\ ilock' = "poisoned"
    /\ UNCHANGED <<istarted, iclear, notTimer>>

\* thread::sleep_ms(*interval)
IntervalSleep ==
    /\ ipc = "sleep"
    /\ ipc' = "test"
    /\ UNCHANGED <<istarted, ilock, iclear, icalls, ilate, notTimer>>

\* if !*started { break; }: the guards are dropped at the break and at the
\* end of the iteration.
IntervalTest ==
    /\ ipc = "test"
    /\ ipc' = IF istarted THEN "lock" ELSE "stopped"
    /\ ilock' = "free"
    /\ UNCHANGED <<istarted, iclear, icalls, ilate, notTimer>>

\* Interval::clear, self.started.lock().unwrap(): the call blocks while the
\* thread holds the mutex and panics when the mutex is poisoned.
ClearLock(c) ==
    /\ iclear[c] = "idle"
    /\ ilock \in {"free", "poisoned"}
    /\ IF ilock = "poisoned"
         THEN iclear' = [iclear EXCEPT ![c] = "panicked"] /\ UNCHANGED ilock
         ELSE iclear' = [iclear EXCEPT ![c] = "locked"] /\ ilock' = "clear"
    /\ UNCHANGED <<ipc, istarted, icalls, ilate, notTimer>>

\* Interval::clear, *started = false; the guard is dropped and clear returns.
ClearReturn(c) ==
    /\ iclear[c] = "locked"
    /\ istarted' = FALSE
    /\ ilock' = "free"
    /\ iclear' = [iclear EXCEPT ![c] = "returned"]
    /\ UNCHANGED <<ipc, icalls, ilate, notTimer>>

IntervalNext ==
    \/ IntervalLock
    \/ CallbackReturn
    \/ CallbackClear
    \/ IntervalSleep
    \/ IntervalTest
    \/ \E c \in Clearers : ClearLock(c)
    \/ \E c \in Clearers : ClearReturn(c)

IntervalInit ==
    /\ \E k \in 0..MaxClearers : IntervalNew(k)
    /\ PoolUnused
    /\ TaskUnused
    /\ AllUnused
    /\ FoldUnused
    /\ BuildUnused
    /\ QueueUnused
    /\ StreamUnused

SpecInterval == IntervalInit /\ [][IntervalNext]_vars

\* C40: once a clear call has returned, the interval thread does not invoke
\* the callback again.
C40_NoCallbackAfterClear == ilate = 0

====
